---- MODULE Spec2Model ----
(***************************************************************************)
(* Model of the pure-Python EAN-13 line scanner of ImageBarcodeScanner     *)
(* (services/image_scanner.py): _try_pure_python, _otsu_threshold,         *)
(* _find_ean13 and _try_decode; of its cascade scan_image_bytes; of        *)
(* BarcodeReader (read_from_image, validate_barcode); of                   *)
(* ProductService.lookup_product with its two tables; and of the upload    *)
(* and camera scan routes of create_app.                                   *)
(*                                                                         *)
(* Conventions.  Python lists are 0-indexed, TLA+ sequences 1-indexed: the *)
(* element at Python index p of a list x is x[p + 1].  A barcode string is *)
(* kept as the tuple of its decimal digits (str(d) and int(c) are inverse  *)
(* on single digits), and Python's None as the empty tuple, which like     *)
(* None is falsy and is never a 13-digit result.                           *)
(***************************************************************************)
EXTENDS Integers, Sequences, FiniteSets, TLC

VARIABLES
    pc,              \* position of the call being followed
    input,           \* how the line or sample sequence under test was built
    img,             \* the image handed to _try_pure_python
    width, height,   \* gray.size
    line_idx,        \* index of the next line_pct in range(15, 85, 2)
    row,             \* samples of the current line / input of _otsu_threshold
    threshold,       \* last threshold returned
    binary,          \* current binary line / input of _find_ean13
    barcode,         \* last result of _find_ean13
    barcodes_found,  \* the vote dict, in insertion order
    result,          \* value returned by _try_pure_python
    thresholded,     \* number of rows handed to _otsu_threshold so far
    raised,          \* an exception reached the except clause of _try_pure_python
    thresholds,      \* thresholds returned by successive calls on one input
    cascade,         \* a run of scan_image_bytes or _scan_with_preprocessing
    calls,           \* concurrent calls of _try_pure_python on one scanner
    vote_maps,       \* the vote dicts of those calls
    validation,      \* value returned by validate_barcode
    products,        \* rows of the products table
    scan_history,    \* rows of the scan_history table
    lookups,         \* calls of lookup_product
    last_scan_result,\* the attribute of the shared BarcodeReader
    requests         \* requests to the upload and camera scan routes

decoderVars == <<pc, input, img, width, height, line_idx, row, threshold, binary,
                 barcode, barcodes_found, result, thresholded, raised, thresholds>>

webVars == <<last_scan_result, requests>>

serviceVars == <<cascade, calls, vote_maps, validation, products, scan_history,
                 lookups, webVars>>

vars == <<decoderVars, serviceVars>>

None == <<>>

\* no request is being followed
WebIdle == last_scan_result = None /\ requests = <<>>

\* the variables outside the single-call decoder hold these values when no
\* cascade, concurrent call, validation or product lookup is being followed
ServiceIdle ==
    /\ WebIdle
    /\ cascade = [name |-> "none"]
    /\ calls = <<>>
    /\ vote_maps = <<>>
    /\ validation = None
    /\ products = <<>>
    /\ scan_history = <<>>
    /\ lookups = <<>>

Min(S) == CHOOSE x \in S : \A y \in S : x <= y

Max(S) == CHOOSE x \in S : \A y \in S : x >= y

(***************************************************************************)
(* Pattern tables of _find_ean13; the entry of digit d is at index d + 1.  *)
(***************************************************************************)
L == << <<0,0,0,1,1,0,1>>, <<0,0,1,1,0,0,1>>, <<0,0,1,0,0,1,1>>,
        <<0,1,1,1,1,0,1>>, <<0,1,0,0,0,1,1>>, <<0,1,1,0,0,0,1>>,
        <<0,1,0,1,1,1,1>>, <<0,1,1,1,0,1,1>>, <<0,1,1,0,1,1,1>>,
        <<0,0,0,1,0,1,1>> >>

\* as G, with the entry of digit 0 equal to the L entry of digit 4
GAmbiguous == << <<0,1,0,0,0,1,1>>, <<0,1,1,0,0,1,1>>, <<0,0,1,1,0,1,1>>,
                 <<0,1,0,0,0,0,1>>, <<0,0,1,1,1,0,1>>, <<0,1,1,1,0,0,1>>,
                 <<0,0,0,0,1,0,1>>, <<0,0,1,0,0,0,1>>, <<0,0,0,1,0,0,1>>,
                 <<0,0,1,0,1,1,1>> >>

G == << <<0,1,0,0,1,1,1>>, <<0,1,1,0,0,1,1>>, <<0,0,1,1,0,1,1>>,
        <<0,1,0,0,0,0,1>>, <<0,0,1,1,1,0,1>>, <<0,1,1,1,0,0,1>>,
        <<0,0,0,0,1,0,1>>, <<0,0,1,0,0,0,1>>, <<0,0,0,1,0,0,1>>,
        <<0,0,1,0,1,1,1>> >>

R == << <<1,1,1,0,0,1,0>>, <<1,1,0,0,1,1,0>>, <<1,1,0,1,1,0,0>>,
        <<1,0,0,0,0,1,0>>, <<1,0,1,1,1,0,0>>, <<1,0,0,1,1,1,0>>,
        <<1,0,1,0,0,0,0>>, <<1,0,0,0,1,0,0>>, <<1,0,0,1,0,0,0>>,
        <<1,1,1,0,1,0,0>> >>

FIRST == << <<"L","L","L","L","L","L">>, <<"L","L","G","L","G","G">>,
            <<"L","L","G","G","L","G">>, <<"L","L","G","G","G","L">>,
            <<"L","G","L","L","G","G">>, <<"L","G","G","L","L","G">>,
            <<"L","G","G","G","L","L">>, <<"L","G","L","G","L","G">>,
            <<"L","G","L","G","G","L">>, <<"L","G","G","L","G","L">> >>

(***************************************************************************)
(* _try_decode                                                             *)
(***************************************************************************)
\* pattern = ''.join(str(binary[pos + j]) for j in range(7)), the bits
\* binary[pos] .. binary[pos + 6].  A read past the end raises IndexError,
\* which the except clause of _try_decode turns into None: the pattern is
\* then None, which matches no table entry.
Pattern(bin, pos) ==
    IF pos + 7 > Len(bin) THEN None ELSE [j \in 1..7 |-> bin[pos + j]]

\* for digit in range(10): L[digit] is compared before G[digit]; the first
\* digit at which either matches wins.  Result <<digit, type>> or None.
MatchLeft(pattern) ==
    LET hits == {d \in 0..9 : L[d + 1] = pattern \/ G[d + 1] = pattern}
    IN  IF hits = {} THEN None
        ELSE LET d == Min(hits)
             IN  <<d, IF L[d + 1] = pattern THEN "L" ELSE "G">>

\* as MatchRight, but comparing only the first six modules of a group
MatchRightSixBits(pattern) ==
    LET hits == {d \in 0..9 : SubSeq(R[d + 1], 1, 6) = SubSeq(pattern, 1, 6)}
    IN  IF hits = {} THEN None ELSE <<Min(hits)>>

MatchRight(pattern) ==
    LET hits == {d \in 0..9 : R[d + 1] = pattern}
    IN  IF hits = {} THEN None ELSE <<Min(hits)>>

\* for fd in range(10): if FIRST[fd] == type_pattern
FirstDigit(type_pattern) ==
    LET hits == {fd \in 0..9 : FIRST[fd + 1] = type_pattern}
    IN  IF hits = {} THEN None ELSE <<Min(hits)>>

\* total = sum(digits[i] * (1 if i % 2 == 0 else 3) for i in range(12))
RECURSIVE WeightedSum(_, _)
WeightedSum(digits, n) ==
    IF n = 0 THEN 0
    ELSE WeightedSum(digits, n - 1)
         + digits[n] * (IF (n - 1) % 2 = 0 THEN 1 ELSE 3)

\* as ChecksumAccepts, with the weights 1 and 3 exchanged
ChecksumSwappedWeights(digits) ==
    (10 - ((3 * (digits[1] + digits[3] + digits[5] + digits[7] + digits[9] + digits[11])
            + (digits[2] + digits[4] + digits[6] + digits[8] + digits[10] + digits[12]))
           % 10)) % 10 = digits[13]

\* check = (10 - (total % 10)) % 10; check == digits[12]
ChecksumAccepts(digits) ==
    (10 - (WeightedSum(digits, 12) % 10)) % 10 = digits[13]

\* as PastEnd, without the length test
PastEndNever(bin, pos) == FALSE

\* if pos + 42 + 5 + 42 + 3 > len(binary): return None
PastEnd(bin, pos) == pos + 42 + 5 + 42 + 3 > Len(bin)

\* as SkipMiddleGuard, for a middle guard of four modules
SkipMiddleGuardNarrow(pos) == pos + 4

\* # Skip middle guard: pos += 5, without a look at the five bits
SkipMiddleGuard(pos) == pos + 5

TryDecode(bin, start) ==
    LET pos == start + 3
    IN  IF PastEnd(bin, pos) THEN None
        ELSE
        LET left  == [d \in 1..6 |-> MatchLeft(Pattern(bin, pos + 7 * (d - 1)))]
            rpos  == SkipMiddleGuard(pos + 42)
            right == [d \in 1..6 |-> MatchRight(Pattern(bin, rpos + 7 * (d - 1)))]
        IN  IF \E d \in 1..6 : left[d] = None THEN None
            ELSE IF \E d \in 1..6 : right[d] = None THEN None
            ELSE
            LET left_digits  == [d \in 1..6 |-> left[d][1]]
                left_types   == [d \in 1..6 |-> left[d][2]]
                right_digits == [d \in 1..6 |-> right[d][1]]
                first_digit  == FirstDigit(left_types)
            IN  IF first_digit = None THEN None
                ELSE
                LET all_digits == first_digit \o left_digits \o right_digits
                IN  IF Len(all_digits) = 13 /\ ChecksumAccepts(all_digits)
                    THEN all_digits
                    ELSE None

(***************************************************************************)
(* _find_ean13                                                             *)
(***************************************************************************)
\* binary[i] == 1 and binary[i + 1] == 0 and binary[i + 2] == 1
StartGuardAt(bin, i) == bin[i + 1] = 1 /\ bin[i + 2] = 0 /\ bin[i + 3] = 1

\* as LastOffset, for a loop over range(len(binary) - 96)
LastOffsetShort(bin) == Len(bin) - 96 - 1

\* the last value of: for i in range(len(binary) - 95)
LastOffset(bin) == Len(bin) - 95 - 1

\* the offsets visited by the loop when it never returns early
ScanOffsets(bin) == 0..LastOffset(bin)

\* as ReturnsAt, returning whatever the first candidate start gave
ReturnsAtAny(decoded) == TRUE

\* if result: return result
ReturnsAt(decoded) == decoded # None

\* one iteration of the loop at offset i
ScanStep(bin, i) ==
    IF StartGuardAt(bin, i)
    THEN LET decoded == TryDecode(bin, i)
         IN  [returned |-> ReturnsAt(decoded), result |-> decoded]
    ELSE [returned |-> FALSE, result |-> None]

\* the iterations lo..hi in increasing order, up to the first that returns
RECURSIVE ScanLoop(_, _, _)
ScanLoop(bin, lo, hi) ==
    IF lo > hi THEN [returned |-> FALSE, result |-> None]
    ELSE IF lo = hi THEN ScanStep(bin, lo)
    ELSE LET mid   == (lo + hi) \div 2
             first == ScanLoop(bin, lo, mid)
         IN  IF first.returned THEN first ELSE ScanLoop(bin, mid + 1, hi)

FindEan13(bin) ==
    IF Len(bin) < 95 THEN None
    ELSE LET out == ScanLoop(bin, 0, LastOffset(bin))
         IN  IF out.returned THEN out.result ELSE None

(***************************************************************************)
(* The list indices (counted from 0, as in the source) that the two        *)
(* functions read.  An index >= len(binary) stands for a read that raises  *)
(* IndexError.                                                             *)
(***************************************************************************)
\* binary[p + j] for j in range(7), up to the first read that raises
GroupReads(bin, p) == {k \in p..(p + 6) : k <= Len(bin)}

\* _try_decode reads the left groups up to the first that matches nothing,
\* and the right groups only after six matching left groups
DecodeReads(bin, start) ==
    LET pos  == start + 3
        rpos == SkipMiddleGuard(pos + 42)
        left_ok(d)  == MatchLeft(Pattern(bin, pos + 7 * (d - 1))) # None
        right_ok(d) == MatchRight(Pattern(bin, rpos + 7 * (d - 1))) # None
        left_read   == {d \in 1..6 : \A e \in 1..(d - 1) : left_ok(e)}
        right_read  == IF \A d \in 1..6 : left_ok(d)
                       THEN {d \in 1..6 : \A e \in 1..(d - 1) : right_ok(e)}
                       ELSE {}
    IN  IF PastEnd(bin, pos) THEN {}
        ELSE UNION {GroupReads(bin, pos + 7 * (d - 1)) : d \in left_read}
             \cup UNION {GroupReads(bin, rpos + 7 * (d - 1)) : d \in right_read}

\* an IndexError was raised inside _try_decode (and caught by its except)
DecodeRaises(bin, start) == \E k \in DecodeReads(bin, start) : k >= Len(bin)

\* binary[i] == 1 and binary[i + 1] == 0 and binary[i + 2] == 1, evaluated
\* left to right with short circuit
GuardReads(bin, i) ==
    {i} \cup (IF bin[i + 1] = 1
              THEN {i + 1} \cup (IF bin[i + 2] = 0 THEN {i + 2} ELSE {})
              ELSE {})

FindReads(bin) ==
    IF Len(bin) < 95 THEN {}
    ELSE LET visited == {i \in ScanOffsets(bin) :
                            \A j \in 0..(i - 1) : ~ScanStep(bin, j).returned}
         IN  UNION {GuardReads(bin, i)
                    \cup (IF StartGuardAt(bin, i) THEN DecodeReads(bin, i) ELSE {}) :
                    i \in visited}

(***************************************************************************)
(* _otsu_threshold                                                         *)
(*                                                                         *)
(* The variance is a Python float; the model keeps it as the exact         *)
(* rational  w_bg * w_fg * (mean_bg - mean_fg)^2 = N^2 / D  with           *)
(*   N = |sum_bg * w_fg - (sum_total - sum_bg) * w_bg|,  D = w_bg * w_fg,  *)
(* stored as  int + num / den  (0 <= num < den) so that every intermediate *)
(* value stays below 2^31 for rows of up to 360 samples.  The float and    *)
(* the rational order agree unless two distinct variances are closer than  *)
(* the rounding error of a double.                                         *)
(***************************************************************************)
\* histogram[min(255, max(0, int(p)))] += 1
Clamp(p) == IF p < 0 THEN 0 ELSE IF p > 255 THEN 255 ELSE p

Histogram(pixels) ==
    LET present == {Clamp(pixels[j]) : j \in DOMAIN pixels}
    IN  [i \in 0..255 |->
            IF i \in present
            THEN Cardinality({j \in DOMAIN pixels : Clamp(pixels[j]) = i})
            ELSE 0]

RECURSIVE SumBins(_, _, _)
\* sum(i * histogram[i]) over the bins lo..hi
SumBins(histogram, lo, hi) ==
    IF lo > hi THEN 0
    ELSE IF lo = hi THEN lo * histogram[lo]
    ELSE LET mid == (lo + hi) \div 2
         IN  SumBins(histogram, lo, mid) + SumBins(histogram, mid + 1, hi)

\* sum_total = sum(i * histogram[i] for i in range(256))
SumTotal(histogram) == SumBins(histogram, 0, 255)

Abs(x) == IF x < 0 THEN 0 - x ELSE x

\* variance = weight_bg * weight_fg * (mean_bg - mean_fg) ** 2
Variance(sum_bg, weight_bg, sum_total, weight_fg) ==
    LET n == Abs(sum_bg * weight_fg - (sum_total - sum_bg) * weight_bg)
        d == weight_bg * weight_fg
        q == n \div d
        r == n % d
    IN  [int |-> q * q * d + 2 * q * r + ((r * r) \div d),
         num |-> (r * r) % d,
         den |-> d]

\* variance > max_variance
Greater(a, b) ==
    \/ a.int > b.int
    \/ a.int = b.int /\ a.num * b.den > b.num * a.den

ZeroVariance == [int |-> 0, num |-> 0, den |-> 1]

\* as ForegroundEmpty, with the early exit removed
ForegroundNeverEmpty(weight_fg) == FALSE

\* The guard of the second early exit of the loop: if weight_fg == 0: break
ForegroundEmpty(weight_fg) == weight_fg = 0

\* The body of the loop for one i.  st.halted records that the loop was left
\* by break; st.raised records a division by a zero weight
\* (ZeroDivisionError), which ends the call.
OtsuStep(i, st, histogram, total, sum_total) ==
    IF st.halted \/ st.raised THEN st
    ELSE
    LET weight_bg == st.weight_bg + histogram[i]
    IN  IF weight_bg = 0
        THEN [st EXCEPT !.weight_bg = weight_bg]
        ELSE
        LET weight_fg == total - weight_bg
        IN  IF ForegroundEmpty(weight_fg)
            THEN [st EXCEPT !.weight_bg = weight_bg, !.halted = TRUE]
            ELSE
            LET sum_bg == st.sum_bg + i * histogram[i]
            IN  IF weight_bg = 0 \/ weight_fg = 0
                THEN [st EXCEPT !.weight_bg = weight_bg, !.sum_bg = sum_bg,
                                !.raised = TRUE]
                ELSE
                LET variance == Variance(sum_bg, weight_bg, sum_total, weight_fg)
                    better   == Greater(variance, st.max_variance)
                IN  [weight_bg    |-> weight_bg,
                     sum_bg       |-> sum_bg,
                     max_variance |-> IF better THEN variance
                                      ELSE st.max_variance,
                     threshold    |-> IF better THEN i ELSE st.threshold,
                     halted       |-> FALSE,
                     raised       |-> FALSE]

RECURSIVE OtsuLoop(_, _, _, _, _, _)
\* for i in range(lo, hi + 1), in increasing order of i
OtsuLoop(lo, hi, st, histogram, total, sum_total) ==
    IF lo = hi THEN OtsuStep(lo, st, histogram, total, sum_total)
    ELSE LET mid   == (lo + hi) \div 2
             first == OtsuLoop(lo, mid, st, histogram, total, sum_total)
         IN  IF first.halted \/ first.raised THEN first
             ELSE OtsuLoop(mid + 1, hi, first, histogram, total, sum_total)

\* Result of a call: [threshold, raised]; raised = TRUE means the call ended
\* with an exception instead of a threshold.
OtsuThreshold(pixels) ==
    IF pixels = <<>> THEN [threshold |-> 128, raised |-> FALSE]
    ELSE
    LET histogram == Histogram(pixels)
        total     == Len(pixels)
        sum_total == SumTotal(histogram)
        st == OtsuLoop(0, 255,
                       [weight_bg |-> 0, sum_bg |-> 0,
                        max_variance |-> ZeroVariance,
                        threshold |-> 128, halted |-> FALSE, raised |-> FALSE],
                       histogram, total, sum_total)
    IN  [threshold |-> st.threshold, raised |-> st.raised]

\* as Binarize, comparing the position of a sample instead of its value
BinarizeByIndex(pixels, t) == [j \in DOMAIN pixels |-> IF j - 1 < t THEN 0 ELSE 1]

\* binary = [0 if p < threshold else 1 for p in row]
Binarize(pixels, t) == [j \in DOMAIN pixels |-> IF pixels[j] < t THEN 0 ELSE 1]

(***************************************************************************)
(* Inputs: EAN-13 symbols, binary lines and sample sequences               *)
(***************************************************************************)
MaxSeed == 2
MaxLead == 1
MaxTrail == 2
MaxSamples == 3

\* The 95 modules of a 13-digit string s: start guard, six left groups from
\* L or G after the parity pattern of s[0], middle guard, six right groups
\* from R, end guard.
Encode(s) ==
    LET parity == FIRST[s[1] + 1]
        left(d)  == IF parity[d] = "L" THEN L[s[d + 1] + 1] ELSE G[s[d + 1] + 1]
        right(d) == R[s[d + 7] + 1]
    IN  <<1, 0, 1>>
        \o left(1) \o left(2) \o left(3) \o left(4) \o left(5) \o left(6)
        \o <<0, 1, 0, 1, 0>>
        \o right(1) \o right(2) \o right(3) \o right(4) \o right(5) \o right(6)
        \o <<1, 0, 1>>

Scenario1Code == <<6, 9, 0, 1, 2, 3, 4, 5, 6, 7, 8, 9, 2>>

Prefix12(s) == SubSeq(s, 1, 12)

Payload(d0, x) ==
    [i \in 1..12 |-> IF i = 1 THEN d0 ELSE (d0 + x * i + (i \div 4)) % 10]

Payloads ==
    {Prefix12(Scenario1Code)} \cup {Payload(d0, x) : d0 \in 0..9, x \in 1..MaxSeed}

\* every payload with each of the ten possible last digits
Codes == {p \o <<c>> : p \in Payloads, c \in 0..9}

\* The check-digit rule of EAN-13, stated independently of the decoder:
\* (10 - (sum over i in 0..11 of d[i] * (1 if i is even else 3)) mod 10) mod 10 = d[12]
Ean13Sum(d) ==
    (d[1] + d[3] + d[5] + d[7] + d[9] + d[11])
    + 3 * (d[2] + d[4] + d[6] + d[8] + d[10] + d[12])

Ean13Valid(d) ==
    /\ Len(d) = 13
    /\ \A i \in 1..13 : d[i] \in 0..9
    /\ (10 - (Ean13Sum(d) % 10)) % 10 = d[13]

ValidCodes == {s \in Codes : Ean13Valid(s)}

Fill(n, b) == [j \in 1..n |-> b]

Flip(bits, f) == [j \in DOMAIN bits |-> IF j = f THEN 1 - bits[j] ELSE bits[j]]

\* positions (1-based) of the 84 module bits that belong to a digit group
GroupBits == (4..45) \cup (51..92)

\* codes whose symbols are also tried with one flipped bit
FlipCodes == {s \in ValidCodes : s = Scenario1Code \/ s = Payload(s[1], 1) \o <<s[13]>>}

\* the m trailing bits whose binary value is b, lowest bit first
TrailBits(m, b) == [j \in 1..m |-> (b \div (2 ^ (j - 1))) % 2]

\* bits put before a symbol so that a start guard shows up before its own
DecoyPrefixes == << <<1, 0, 1>>, <<1, 0, 1, 0>>, <<0, 1, 0, 1, 0, 0>> >>

\* kinds of line:
\*   symbol   - lead zero bits, the symbol of code, trail bits of value fill
\*   flipped  - as symbol, with bit flip of the symbol inverted
\*   constant - lead bits, all equal to fill
\*   decoy    - DecoyPrefixes[lead], the symbol of code, trail bits
\*   pair     - the symbol of code, the symbol of Scenario1Code, trail bits
\*   cut      - the first lead bits of the symbol of code
LineInputs ==
    UNION {
        {[kind |-> "symbol", code |-> s, lead |-> k, trail |-> m, fill |-> b, flip |-> 0] :
            s \in Codes, k \in 0..MaxLead, b \in 0..(2 ^ m - 1)} : m \in 0..MaxTrail}
    \cup
    {[kind |-> "flipped", code |-> s, lead |-> 0, trail |-> m, fill |-> b, flip |-> f] :
        s \in FlipCodes, m \in 1..MaxTrail, b \in 0..1, f \in GroupBits}
    \cup
    {[kind |-> "constant", code |-> None, lead |-> n, trail |-> 0, fill |-> b, flip |-> 0] :
        n \in {0, 94, 95, 96, 100}, b \in 0..1}
    \cup
    {[kind |-> "decoy", code |-> s, lead |-> k, trail |-> m, fill |-> 0, flip |-> 0] :
        s \in Codes, k \in DOMAIN DecoyPrefixes, m \in 0..MaxTrail}
    \cup
    {[kind |-> "pair", code |-> s, lead |-> 0, trail |-> m, fill |-> 0, flip |-> 0] :
        s \in Codes, m \in 0..MaxTrail}

LineOf(in) ==
    IF in.kind = "constant" THEN Fill(in.lead, in.fill)
    ELSE IF in.kind = "cut" THEN SubSeq(Encode(in.code), 1, in.lead)
    ELSE IF in.kind = "decoy"
    THEN DecoyPrefixes[in.lead] \o Encode(in.code) \o TrailBits(in.trail, in.fill)
    ELSE IF in.kind = "pair"
    THEN Encode(in.code) \o Encode(Scenario1Code) \o TrailBits(in.trail, in.fill)
    ELSE Fill(in.lead, 0)
         \o (IF in.flip = 0 THEN Encode(in.code) ELSE Flip(Encode(in.code), in.flip))
         \o TrailBits(in.trail, in.fill)

(***************************************************************************)
(* Images.  An image is kept as its description: a background level, an    *)
(* optional deterministic noise, and strips of samples drawn along a row   *)
(* or a column.  GetData gives the flat row-major pixel list of            *)
(* list(gray.getdata()), of length width * height.                         *)
(***************************************************************************)
VoteRowCount == 3
MaxNoise == 2

Covers(m, x, y) ==
    IF m.dir = "row"
    THEN y = m.at /\ x >= m.from /\ x < m.from + Len(m.samples)
    ELSE x = m.at /\ y >= m.from /\ y < m.from + Len(m.samples)

PixelAt(g, x, y) ==
    LET hits == {m \in DOMAIN g.marks : Covers(g.marks[m], x, y)}
    IN  IF hits # {}
        THEN LET m == g.marks[Max(hits)]
             IN  m.samples[(IF m.dir = "row" THEN x ELSE y) - m.from + 1]
        ELSE IF g.noise = 0 THEN g.bg
        ELSE (g.bg + g.noise * (x + 3 * y + x * y)) % 256

NumPixels(g) == g.width * g.height

\* pixels[k] for 0 <= k < len(pixels)
GetData(g, k) == PixelAt(g, k % g.width, k \div g.width)

\* pixels[lo:hi], with Python's clamping of slice bounds to the list
Slice(g, lo, hi) ==
    LET n == NumPixels(g)
        a == IF lo > n THEN n ELSE lo
        b == IF hi > n THEN n ELSE hi
    IN  [j \in 1..(IF b > a THEN b - a ELSE 0) |-> GetData(g, a + j - 1)]

\* A symbol drawn at `scale` samples per module, module 1 at level `one`
\* and module 0 at level `zero`; with speck, the first sample is at level 1.
Render(bits, scale, one, zero, speck) ==
    [j \in 1..(Len(bits) * scale) |->
        IF speck /\ j = 1 THEN 1
        ELSE IF bits[((j - 1) \div scale) + 1] = 1 THEN one ELSE zero]

Image(w, h, bg, noise, marks) ==
    [width |-> w, height |-> h, bg |-> bg, noise |-> noise,
     corrupt |-> FALSE, marks |-> marks]

RowMark(y, x, samples) == [dir |-> "row", at |-> y, from |-> x, samples |-> samples]

ColMark(x, y, samples) == [dir |-> "col", at |-> x, from |-> y, samples |-> samples]

OtherCode == Payload(8, 1) \o <<CHOOSE c \in 0..9 : Ean13Valid(Payload(8, 1) \o <<c>>)>>

BadCode == [Scenario1Code EXCEPT ![13] = 3]

\* what one row of a vote image carries
RowContents ==
    {[code |-> None, speck |-> FALSE],
     [code |-> Scenario1Code, speck |-> TRUE],
     [code |-> OtherCode, speck |-> TRUE],
     [code |-> BadCode, speck |-> TRUE],
     [code |-> Scenario1Code, speck |-> FALSE]}

RECURSIVE VoteMarks(_, _)
VoteMarks(contents, n) ==
    IF n = 0 THEN <<>>
    ELSE LET rest == VoteMarks(contents, n - 1)
         IN  IF contents[n].code = None THEN rest
             ELSE Append(rest, RowMark(15 + 2 * (n - 1), 0,
                             Render(Encode(contents[n].code), 1, 255, 0,
                                    contents[n].speck)))

\* 100 x 100 white images whose rows 15, 17, ... carry symbols at one sample
\* per module
VoteImages ==
    {Image(100, 100, 255, 0, VoteMarks(c, VoteRowCount)) :
        c \in [1..VoteRowCount -> RowContents]}

UniformLevels == {0, 1, 127, 128, 129, 254, 255}

UniformImages ==
    {Image(d[1], d[2], v, 0, <<>>) :
        d \in {<<100, 100>>, <<130, 3>>, <<100, 1>>, <<7, 9>>}, v \in UniformLevels}

EmptyImages == {Image(0, 0, 0, 0, <<>>), Image(0, 5, 0, 0, <<>>), Image(5, 0, 0, 0, <<>>)}

CorruptImages == {[Image(100, 100, 255, 0, <<>>) EXCEPT !.corrupt = TRUE]}

\* 50 x 50 images: noise, or a symbol cut at the right border
SmallImages ==
    {Image(50, 50, bg, n, <<>>) : bg \in {0, 128, 255}, n \in 0..MaxNoise}
    \cup {Image(50, 50, 255, 0,
                <<RowMark(25, 0, Render(Encode(Scenario1Code), 1, 255, 0, TRUE))>>)}

\* scenario 1: 300 x 200, white, row 100 carries the symbol of 6901234567892
\* at 4 samples per module (bars dark, or bars light)
Scenario1Images ==
    {Image(300, 200, 255, 0,
           <<RowMark(100, 0, Render(Encode(Scenario1Code), 4, lv[1], lv[2], FALSE))>>) :
        lv \in {<<0, 255>>, <<255, 0>>}}

\* scenario 2: the symbol runs along one column only
Scenario2Images ==
    {Image(300, 200, 255, 0,
           <<ColMark(150, 0, Render(Encode(Scenario1Code), 4, lv[1], lv[2], FALSE))>>) :
        lv \in {<<0, 255>>, <<255, 0>>}}
    \cup
    {Image(100, 100, 255, 0,
           <<ColMark(50, 0, Render(Encode(Scenario1Code), 1, 255, 0, sp))>>) :
        sp \in BOOLEAN}

Images ==
    VoteImages \cup UniformImages \cup EmptyImages \cup CorruptImages
    \cup SmallImages \cup Scenario1Images \cup Scenario2Images

NoInput == [kind |-> "none"]

NoImage == [width |-> 0, height |-> 0, bg |-> 0, noise |-> 0,
            corrupt |-> FALSE, marks |-> <<>>]

(***************************************************************************)
(* _find_ean13 applied to one binary line                                  *)
(***************************************************************************)
InitDecode ==
    /\ pc = "find_call"
    /\ input \in LineInputs
    /\ binary = LineOf(input)
    /\ barcode = None
    /\ img = NoImage /\ width = 0 /\ height = 0 /\ line_idx = 0
    /\ row = <<>> /\ threshold = 0 /\ barcodes_found = <<>>
    /\ result = None /\ thresholded = 0 /\ raised = FALSE /\ thresholds = <<>>
    /\ ServiceIdle

FindCall ==
    /\ pc = "find_call"
    /\ barcode' = FindEan13(binary)
    /\ pc' = "find_return"
    /\ UNCHANGED <<input, img, width, height, line_idx, row, threshold, binary,
                   barcodes_found, result, thresholded, raised, thresholds>>
    /\ UNCHANGED serviceVars

NextDecode == FindCall

SpecDecode == InitDecode /\ [][NextDecode]_vars

(***************************************************************************)
(* _try_decode applied to one binary line at an arbitrary start            *)
(***************************************************************************)
CutLengths == {0, 1, 3, 50, 94}

\* one more than the longest line, so that start ranges over every index
\* of every line and the two values behind its end
MaxStart == 95 + MaxLead + MaxTrail + 1

DecodeLines ==
    {in \in LineInputs : in.kind \in {"symbol", "decoy"} /\ in.code = Scenario1Code}
    \cup
    {[kind |-> "cut", code |-> Scenario1Code, lead |-> n, trail |-> 0,
      fill |-> 0, flip |-> 0] : n \in CutLengths}

InitTryDecode ==
    /\ pc = "decode_call"
    /\ \E in \in DecodeLines, i \in 0..MaxStart :
          /\ input = [line |-> in, start |-> i]
          /\ binary = LineOf(in)
    /\ barcode = None
    /\ img = NoImage /\ width = 0 /\ height = 0 /\ line_idx = 0
    /\ row = <<>> /\ threshold = 0 /\ barcodes_found = <<>>
    /\ result = None /\ thresholded = 0 /\ raised = FALSE /\ thresholds = <<>>
    /\ ServiceIdle

\* result = self._try_decode(binary, i, L, G, R, FIRST); raised records
\* whether the except clause of _try_decode had to catch an IndexError
DecodeCall ==
    /\ pc = "decode_call"
    /\ barcode' = TryDecode(binary, input.start)
    /\ raised' = DecodeRaises(binary, input.start)
    /\ pc' = "decode_return"
    /\ UNCHANGED <<input, img, width, height, line_idx, row, threshold, binary,
                   barcodes_found, result, thresholded, thresholds>>
    /\ UNCHANGED serviceVars

InitLines == InitDecode \/ InitTryDecode

NextLines == FindCall \/ DecodeCall

SpecLines == InitLines /\ [][NextLines]_vars

(***************************************************************************)
(* _try_decode applied to a line and to the same line with other bits in   *)
(* the middle guard (indices start + 45 .. start + 49) and the end guard   *)
(* (indices start + 92 .. start + 94)                                      *)
(***************************************************************************)
\* the 2^n bit patterns of length n
BitPatterns(n) == [1..n -> 0..1]

\* the line with bits middle and end_ written over the two guards of the
\* symbol that begins at index start; an index behind the line is left out
WithGuards(bin, start, middle, end_) ==
    [j \in 1..Len(bin) |->
        IF j - 1 - start \in 45..49 THEN middle[j - start - 45]
        ELSE IF j - 1 - start \in 92..94 THEN end_[j - start - 92]
        ELSE bin[j]]

\* 95 modules with a middle guard of four modules: the right groups begin
\* one module early and four modules follow them
EncodeNarrow(s) ==
    SubSeq(Encode(s), 1, 3 + 42 + 4) \o SubSeq(Encode(s), 3 + 42 + 5 + 1, 92)
    \o <<0, 1, 0, 1>>

GuardLines ==
    DecodeLines
    \cup {[kind |-> "narrow", code |-> Scenario1Code, lead |-> 0, trail |-> 0,
           fill |-> 0, flip |-> 0]}

GuardLineOf(in) == IF in.kind = "narrow" THEN EncodeNarrow(in.code) ELSE LineOf(in)

\* the starts tried: every offset of a symbol behind a lead or a decoy
\* prefix, and one behind
GuardStarts == 0..(Len(DecoyPrefixes[3]) + MaxLead)

InitGuards ==
    /\ pc = "guard_call"
    /\ \E in \in GuardLines, i \in GuardStarts,
          m \in BitPatterns(5), e \in BitPatterns(3) :
          /\ input = [line |-> in, start |-> i, middle |-> m, end_ |-> e]
          /\ binary = GuardLineOf(in)
    /\ barcode = None
    /\ img = NoImage /\ width = 0 /\ height = 0 /\ line_idx = 0
    /\ row = <<>> /\ threshold = 0 /\ barcodes_found = <<>>
    /\ result = None /\ thresholded = 0 /\ raised = FALSE /\ thresholds = <<>>
    /\ ServiceIdle

\* two calls of _try_decode at the same start: barcode is the result on the
\* line, result the result on the line with the other guard bits
GuardDecodeCall ==
    /\ pc = "guard_call"
    /\ barcode' = TryDecode(binary, input.start)
    /\ result' = TryDecode(WithGuards(binary, input.start, input.middle, input.end_),
                           input.start)
    /\ pc' = "guard_return"
    /\ UNCHANGED <<input, img, width, height, line_idx, row, threshold, binary,
                   barcodes_found, thresholded, raised, thresholds>>
    /\ UNCHANGED serviceVars

NextGuards == GuardDecodeCall

SpecGuards == InitGuards /\ [][NextGuards]_vars

(***************************************************************************)
(* The table searches of _try_decode applied to every 7-bit group and      *)
(* every string of six parity letters                                      *)
(***************************************************************************)
ParityStrings == [1..6 -> {"L", "G"}]

InitTables ==
    /\ pc = "match_call"
    /\ \E p \in BitPatterns(7), t \in ParityStrings :
          input = [pattern |-> p, types |-> t]
    /\ result = None
    /\ img = NoImage /\ width = 0 /\ height = 0 /\ line_idx = 0
    /\ row = <<>> /\ threshold = 0 /\ binary = <<>> /\ barcode = None
    /\ barcodes_found = <<>>
    /\ thresholded = 0 /\ raised = FALSE /\ thresholds = <<>>
    /\ ServiceIdle

\* the three searches: the left-group loop over L and G, the right-group
\* loop over R, and the loop over FIRST
MatchCall ==
    /\ pc = "match_call"
    /\ result' = <<MatchLeft(input.pattern), MatchRight(input.pattern),
                   FirstDigit(input.types)>>
    /\ pc' = "match_return"
    /\ UNCHANGED <<input, img, width, height, line_idx, row, threshold, binary,
                   barcode, barcodes_found, thresholded, raised, thresholds>>
    /\ UNCHANGED serviceVars

NextTables == MatchCall

SpecTables == InitTables /\ [][NextTables]_vars

(***************************************************************************)
(* BarcodeReader.validate_barcode.  A string is the tuple of its           *)
(* characters: 0..9 are the digits, 10 a letter, 11 '-', 12 '.', and 13 a   *)
(* blank, a character outside the class [A-Za-z0-9\-\.].                    *)
(***************************************************************************)
\* barcode.isdigit()
IsDigit(b) == b # <<>> /\ \A i \in DOMAIN b : b[i] \in 0..9

\* re.match(r'^[A-Za-z0-9\-\.]+$', barcode)
MatchesFormat(b) == b # <<>> /\ \A i \in DOMAIN b : b[i] \in 0..12

\* sum(digits[i] for i in range(from, 12, 2)), from 0 or 1
RECURSIVE SumEverySecond(_, _)
SumEverySecond(digits, from) ==
    IF from >= 12 THEN 0
    ELSE digits[from + 1] + SumEverySecond(digits, from + 2)

\* as ValidateEan13Checksum, weighting the odd_sum by 3 instead of the even_sum
ValidateEan13ChecksumSwapped(b) ==
    IF Len(b) < 13 THEN FALSE
    ELSE LET odd_sum  == SumEverySecond(b, 0)
             even_sum == SumEverySecond(b, 1)
         IN  (10 - ((odd_sum * 3 + even_sum) % 10)) % 10 = b[13]

\* _validate_ean13_checksum; the caller has checked isdigit(), and a string
\* shorter than 13 raises IndexError, which is answered with False
ValidateEan13Checksum(b) ==
    IF Len(b) < 13 THEN FALSE
    ELSE LET odd_sum  == SumEverySecond(b, 0)
             even_sum == SumEverySecond(b, 1)
         IN  (10 - ((odd_sum + even_sum * 3) % 10)) % 10 = b[13]

ValidateBarcode(b) ==
    IF b = <<>> THEN [valid |-> FALSE, message |-> "Barcode is empty"]
    ELSE IF Len(b) = 13 /\ IsDigit(b)
    THEN IF ValidateEan13Checksum(b)
         THEN [valid |-> TRUE, message |-> "Valid EAN-13 barcode"]
         ELSE [valid |-> FALSE, message |-> "Invalid EAN-13 checksum"]
    ELSE IF Len(b) = 8 /\ IsDigit(b)
    THEN [valid |-> TRUE, message |-> "Valid EAN-8 barcode"]
    ELSE IF Len(b) = 12 /\ IsDigit(b)
    THEN [valid |-> TRUE, message |-> "Valid UPC-A barcode"]
    ELSE IF MatchesFormat(b)
    THEN [valid |-> TRUE, message |-> "Valid barcode format"]
    ELSE [valid |-> FALSE, message |-> "Unrecognized barcode format"]

\* the strings given to validate_barcode: every code, with one pair of
\* neighbouring digits exchanged, cut to 12 and 8 digits, and with a letter
\* or a blank in it
ValidateStrings ==
    Codes
    \cup {[i \in 1..13 |-> IF i = k THEN s[k + 1] ELSE IF i = k + 1 THEN s[k] ELSE s[i]] :
            s \in ValidCodes, k \in 1..12}
    \cup {SubSeq(s, 1, n) : s \in Codes, n \in {0, 8, 12}}
    \cup {[s EXCEPT ![1] = c] : s \in ValidCodes, c \in {10, 13}}
    \cup {<<1, 11, 12, 10>>, <<13>>}

InitValidate ==
    /\ pc = "validate_call"
    /\ \E s \in ValidateStrings : input = [kind |-> "string", code |-> s]
    /\ binary = <<>> /\ barcode = None
    /\ img = NoImage /\ width = 0 /\ height = 0 /\ line_idx = 0
    /\ row = <<>> /\ threshold = 0 /\ barcodes_found = <<>>
    /\ result = None /\ thresholded = 0 /\ raised = FALSE /\ thresholds = <<>>
    /\ ServiceIdle

\* is_valid, message = barcode_reader.validate_barcode(barcode), on a typed
\* string or on the string the decoder returned
ValidateCall ==
    /\ pc \in {"validate_call", "find_return"}
    /\ \E b \in {IF pc = "find_return" THEN barcode ELSE input.code} :
          validation' = [subject |-> b, from |-> pc, outcome |-> ValidateBarcode(b)]
    /\ pc' = "validate_return"
    /\ UNCHANGED <<input, img, width, height, line_idx, row, threshold, binary,
                   barcode, barcodes_found, result, thresholded, raised, thresholds>>
    /\ UNCHANGED <<cascade, calls, vote_maps, products, scan_history, lookups,
                   webVars>>

InitValidation == InitDecode \/ InitValidate

NextValidation == FindCall \/ ValidateCall

SpecValidation == InitValidation /\ [][NextValidation]_vars

(***************************************************************************)
(* _try_pure_python                                                        *)
(***************************************************************************)
NumLines == 35

MinRowLen == 100

\* the k-th value of range(15, 85, 2)
LinePct(k) == 15 + 2 * k

\* as LineY, rounding the quotient up
LineYRoundedUp(h, line_pct) == (h * line_pct + 99) \div 100

\* y = int(height * line_pct / 100)
LineY(h, line_pct) == (h * line_pct) \div 100

\* row = pixels[y * width:(y + 1) * width]
RowOf(g, w, h, line_pct) ==
    LET y == LineY(h, line_pct) IN Slice(g, y * w, (y + 1) * w)

\* as NextLine, for a loop that never leaves its current line
NextLineStuck(k) == k

\* for line_pct in range(15, 85, 2): the position of the next value
NextLine(k) == k + 1

\* as TooShort, comparing with the length of a symbol's first half
TooShortLoose(r) == Len(r) < 45

\* if len(row) < 100: continue
TooShort(r) == Len(r) < MinRowLen

\* as Vote, storing 1 whenever a line decodes
VoteOverwrite(found, key) ==
    IF \E i \in DOMAIN found : found[i].key = key
    THEN [i \in DOMAIN found |->
            IF found[i].key = key
            THEN [found[i] EXCEPT !.count = 1]
            ELSE found[i]]
    ELSE Append(found, [key |-> key, count |-> 1])

\* barcodes_found[barcode] = barcodes_found.get(barcode, 0) + 1
Vote(found, key) ==
    IF \E i \in DOMAIN found : found[i].key = key
    THEN [i \in DOMAIN found |->
            IF found[i].key = key
            THEN [found[i] EXCEPT !.count = @ + 1]
            ELSE found[i]]
    ELSE Append(found, [key |-> key, count |-> 1])

\* as MaxKey, returning the last key of maximal count
MaxKeyLast(found) ==
    found[Max({i \in DOMAIN found :
                  \A j \in DOMAIN found : found[j].count <= found[i].count})].key

\* max(barcodes_found, key=barcodes_found.get): the first key, in insertion
\* order, whose count no other key exceeds
MaxKey(found) ==
    found[Min({i \in DOMAIN found :
                  \A j \in DOMAIN found : found[j].count <= found[i].count})].key

Init ==
    /\ pc = "start"
    /\ img \in Images
    /\ input = NoInput
    /\ width = 0 /\ height = 0 /\ line_idx = 0
    /\ row = <<>> /\ threshold = 0 /\ binary = <<>> /\ barcode = None
    /\ barcodes_found = <<>> /\ result = None
    /\ thresholded = 0 /\ raised = FALSE /\ thresholds = <<>>
    /\ ServiceIdle

\* gray = img.convert('L'); width, height = gray.size;
\* pixels = list(gray.getdata()); barcodes_found = {}
Convert ==
    /\ pc = "start"
    /\ ~img.corrupt
    /\ width' = img.width
    /\ height' = img.height
    /\ barcodes_found' = <<>>
    /\ line_idx' = 0
    /\ pc' = "loop"
    /\ UNCHANGED <<input, img, row, threshold, binary, barcode, result,
                   thresholded, raised, thresholds>>
    /\ UNCHANGED serviceVars

\* the image cannot be read: except Exception: return None
ConvertRaises ==
    /\ pc = "start"
    /\ img.corrupt
    /\ raised' = TRUE
    /\ result' = None
    /\ pc' = "done"
    /\ UNCHANGED <<input, img, width, height, line_idx, row, threshold, binary,
                   barcode, barcodes_found, thresholded, thresholds>>
    /\ UNCHANGED serviceVars

\* one pass of the loop that ends at `continue`
SkipLine ==
    /\ pc = "loop"
    /\ line_idx < NumLines
    /\ \E r \in {RowOf(img, width, height, LinePct(line_idx))} :
           /\ TooShort(r)
           /\ row' = r
    /\ line_idx' = NextLine(line_idx)
    /\ UNCHANGED <<pc, input, img, width, height, threshold, binary, barcode,
                   barcodes_found, result, thresholded, raised, thresholds>>
    /\ UNCHANGED serviceVars

\* one full pass of the loop: threshold, binarize, decode, vote
ScanLine ==
    /\ pc = "loop"
    /\ line_idx < NumLines
    /\ \E r \in {RowOf(img, width, height, LinePct(line_idx))} :
       /\ ~TooShort(r)
       /\ \E o \in {OtsuThreshold(r)} :
          /\ row' = r
          /\ thresholded' = thresholded + 1
          /\ IF o.raised
             THEN /\ raised' = TRUE
                  /\ result' = None
                  /\ pc' = "done"
                  /\ UNCHANGED <<threshold, binary, barcode, barcodes_found,
                                 line_idx>>
             ELSE \E b \in {Binarize(r, o.threshold)} :
                  \E f \in {FindEan13(b)} :
                  /\ threshold' = o.threshold
                  /\ binary' = b
                  /\ barcode' = f
                  /\ barcodes_found' =
                       IF f # None THEN Vote(barcodes_found, f)
                       ELSE barcodes_found
                  /\ line_idx' = NextLine(line_idx)
                  /\ UNCHANGED <<pc, result, raised>>
    /\ UNCHANGED <<input, img, width, height, thresholds>>
    /\ UNCHANGED serviceVars

\* as Return, without the test of barcodes_found: max() of an empty dict
\* raises ValueError, which the except clause turns into None
ReturnUnguarded ==
    /\ pc = "loop"
    /\ line_idx = NumLines
    /\ raised' = (barcodes_found = <<>>)
    /\ result' = IF barcodes_found # <<>> THEN MaxKey(barcodes_found) ELSE None
    /\ pc' = "done"
    /\ UNCHANGED <<input, img, width, height, line_idx, row, threshold, binary,
                   barcode, barcodes_found, thresholded, thresholds>>
    /\ UNCHANGED serviceVars

\* if barcodes_found: return max(...); return None
Return ==
    /\ pc = "loop"
    /\ line_idx = NumLines
    /\ result' = IF barcodes_found # <<>> THEN MaxKey(barcodes_found) ELSE None
    /\ pc' = "done"
    /\ UNCHANGED <<input, img, width, height, line_idx, row, threshold, binary,
                   barcode, barcodes_found, thresholded, raised, thresholds>>
    /\ UNCHANGED serviceVars

Next == Convert \/ ConvertRaises \/ SkipLine \/ ScanLine \/ Return

Spec == Init /\ [][Next]_vars

\* one pass of the for loop, whichever way it ends
LoopPass == SkipLine \/ ScanLine

\* a further pass is due: the range is not exhausted.  One of SkipLine and
\* ScanLine is then enabled (the row is too short or it is not) and
\* advances the loop, so this is ENABLED <<LoopPass>>_vars.
LoopPassEnabled == pc = "loop" /\ line_idx < NumLines

\* A call that has started keeps executing: the interpreter runs each
\* statement it reaches.  This is weak fairness of every step of the call;
\* for the loop pass the condition WF_vars(LoopPass), i.e.
\* []<>(~ENABLED <<LoopPass>>_vars \/ <<LoopPass>>_vars), is written with
\* LoopPassEnabled in place of the ENABLED expression.
SpecLive ==
    /\ Init /\ [][Next]_vars
    /\ WF_vars(Convert) /\ WF_vars(ConvertRaises) /\ WF_vars(Return)
    /\ (([]<>~LoopPassEnabled) \/ ([]<><<LoopPass>>_vars))

(***************************************************************************)
(* _try_pure_python on grids of every small size: the line schedule        *)
(***************************************************************************)
MaxHeight == 40
MaxWidth == 3

\* grids of height 1..MaxHeight: narrow ones of every width 0..MaxWidth,
\* whose rows are all skipped, and ones of MinRowLen columns, whose rows
\* are thresholded
ScheduleImages ==
    {Image(w, h, 255, 1, <<>>) : w \in 0..MaxWidth, h \in 1..MaxHeight}
    \cup {Image(MinRowLen, h, 255, 0, <<>>) : h \in 1..MaxHeight}

InitSchedule ==
    /\ pc = "start"
    /\ img \in ScheduleImages
    /\ input = NoInput
    /\ width = 0 /\ height = 0 /\ line_idx = 0
    /\ row = <<>> /\ threshold = 0 /\ binary = <<>> /\ barcode = None
    /\ barcodes_found = <<>> /\ result = None
    /\ thresholded = 0 /\ raised = FALSE /\ thresholds = <<>>
    /\ ServiceIdle

NextSchedule == Convert \/ SkipLine \/ ScanLine \/ Return

SpecSchedule == InitSchedule /\ [][NextSchedule]_vars

(***************************************************************************)
(* scan_image_bytes: Image.open, the five pyzbar stages, then the pure     *)
(* decoder.  What pyzbar finds is not computed: each stage has an outcome  *)
(* drawn from StageOutcomes.  The empty string and None are both <<>>.     *)
(***************************************************************************)
StageNames == <<"_try_pyzbar", "_try_pyzbar_enhanced", "_try_pyzbar_regions",
                "_try_pyzbar_scaled", "_try_pyzbar_rotated", "_try_pure_python">>

PyzbarStages == 1..(Len(StageNames) - 1)

PureStage == Len(StageNames)

\* nothing: decode() returns no result; empty: results[0].data is b'';
\* found: results[0].data is a barcode; raises: an exception inside the stage
StageOutcomes == {"nothing", "empty", "found", "raises"}

\* the barcode pyzbar reads in stage k: the one-character string of digit k
StageCode(k) == <<k>>

OpenOutcomes == {"ok", "ImportError", "Exception"}

OpenError(o) ==
    IF o = "ImportError" THEN <<"Pillow not installed">>
    ELSE <<"Cannot open image: ">>

NoBarcodeError ==
    <<"No barcode detected. Try a clearer photo with the barcode more visible.">>

\* as TryStage, without the except clauses
TryStageUncaught(o, k) ==
    [value |-> IF o = "found" THEN StageCode(k) ELSE None, raised |-> o = "raises"]

\* a _try_pyzbar* call: return results[0].data.decode('utf-8') or None;
\* except ImportError: return None; except Exception: return None
TryStage(o, k) ==
    [value |-> IF o = "found" THEN StageCode(k) ELSE None, raised |-> FALSE]

\* as StageSucceeded, for a cascade that never returns early
StageSucceededNever(b) == FALSE

\* if barcode:
StageSucceeded(b) == b # None

NoReturn == [barcode |-> None, error |-> None]

CascadeImages ==
    {Image(100, 100, 255, 0,
           <<RowMark(15, 0, Render(Encode(Scenario1Code), 1, 255, 0, TRUE))>>),
     Image(50, 50, 255, 0, <<>>)}
    \cup CorruptImages

InitScanImageBytes ==
    /\ pc = "cascade"
    /\ img \in CascadeImages
    /\ \E o \in OpenOutcomes, e \in [PyzbarStages -> StageOutcomes] :
          cascade = [name |-> "scan_image_bytes", open |-> o, env |-> e, at |-> 0,
                     ran |-> <<>>, all_results |-> <<>>, ret |-> NoReturn,
                     returned |-> FALSE, escaped |-> FALSE]
    /\ input = NoInput
    /\ width = 0 /\ height = 0 /\ line_idx = 0
    /\ row = <<>> /\ threshold = 0 /\ binary = <<>> /\ barcode = None
    /\ barcodes_found = <<>> /\ result = None
    /\ thresholded = 0 /\ raised = FALSE /\ thresholds = <<>>
    /\ calls = <<>> /\ vote_maps = <<>> /\ validation = None /\ WebIdle
    /\ products = <<>> /\ scan_history = <<>> /\ lookups = <<>>

\* img = Image.open(io.BytesIO(image_bytes)) and its two except clauses
OpenImage ==
    /\ cascade.name = "scan_image_bytes"
    /\ cascade.at = 0 /\ ~cascade.returned
    /\ cascade' =
          IF cascade.open = "ok" THEN [cascade EXCEPT !.at = 1]
          ELSE [cascade EXCEPT !.returned = TRUE,
                               !.ret = [barcode |-> None,
                                        error |-> OpenError(cascade.open)]]
    /\ UNCHANGED decoderVars
    /\ UNCHANGED <<calls, vote_maps, validation, webVars, products, scan_history, lookups>>

\* barcode = self._try_pyzbar...(img); if barcode: return barcode, None
RunStage ==
    /\ cascade.name = "scan_image_bytes"
    /\ cascade.at \in PyzbarStages /\ ~cascade.returned
    /\ \E r \in {TryStage(cascade.env[cascade.at], cascade.at)} :
          cascade' =
             IF r.raised
             THEN [cascade EXCEPT !.ran = Append(@, cascade.at),
                                  !.returned = TRUE, !.escaped = TRUE]
             ELSE IF StageSucceeded(r.value)
             THEN [cascade EXCEPT !.ran = Append(@, cascade.at),
                                  !.returned = TRUE,
                                  !.ret = [barcode |-> r.value, error |-> None]]
             ELSE [cascade EXCEPT !.ran = Append(@, cascade.at), !.at = @ + 1]
    /\ UNCHANGED decoderVars
    /\ UNCHANGED <<calls, vote_maps, validation, webVars, products, scan_history, lookups>>

\* barcode = self._try_pure_python(img): the call is entered
StartPure ==
    /\ cascade.name = "scan_image_bytes"
    /\ cascade.at = PureStage /\ ~cascade.returned
    /\ pc = "cascade"
    /\ pc' = "start"
    /\ cascade' = [cascade EXCEPT !.ran = Append(@, PureStage)]
    /\ UNCHANGED <<input, img, width, height, line_idx, row, threshold, binary,
                   barcode, barcodes_found, result, thresholded, raised, thresholds>>
    /\ UNCHANGED <<calls, vote_maps, validation, webVars, products, scan_history, lookups>>

\* the call has returned: if barcode: return barcode, None;
\* return None, 'No barcode detected...'
FinishPure ==
    /\ cascade.name = "scan_image_bytes"
    /\ cascade.at = PureStage /\ ~cascade.returned
    /\ pc = "done"
    /\ cascade' =
          [cascade EXCEPT !.returned = TRUE,
                          !.ret = IF StageSucceeded(result)
                                  THEN [barcode |-> result, error |-> None]
                                  ELSE [barcode |-> None, error |-> NoBarcodeError]]
    /\ UNCHANGED decoderVars
    /\ UNCHANGED <<calls, vote_maps, validation, webVars, products, scan_history, lookups>>

(***************************************************************************)
(* BarcodeReader._scan_with_preprocessing: seven pyzbar.decode calls on    *)
(* differently prepared images; nothing is caught inside the function.     *)
(***************************************************************************)
NumMethods == 7

MethodOutcomes == {"nothing", "found", "raises"}

\* what pyzbar.decode returns in method k when it finds the symbol: the
\* same symbol reported twice
MethodResults(k) == <<StageCode(k), StageCode(k)>>

\* as MethodGuard, for methods that run whatever was found before
MethodGuardOpen(all_results) == TRUE

\* if not all_results:
MethodGuard(all_results) == all_results = <<>>

\* the loop over all_results with the set `seen`
RECURSIVE Unique(_)
Unique(results) ==
    IF results = <<>> THEN <<>>
    ELSE LET front == Unique(SubSeq(results, 1, Len(results) - 1))
             last  == results[Len(results)]
         IN  IF \E i \in DOMAIN front : front[i] = last THEN front
             ELSE Append(front, last)

InitScanWithPreprocessing ==
    /\ pc = "cascade"
    /\ img = NoImage
    /\ \E e \in [1..NumMethods -> MethodOutcomes] :
          cascade = [name |-> "_scan_with_preprocessing", open |-> "ok", env |-> e,
                     at |-> 1, ran |-> <<>>, all_results |-> <<>>, ret |-> NoReturn,
                     returned |-> FALSE, escaped |-> FALSE]
    /\ input = NoInput
    /\ width = 0 /\ height = 0 /\ line_idx = 0
    /\ row = <<>> /\ threshold = 0 /\ binary = <<>> /\ barcode = None
    /\ barcodes_found = <<>> /\ result = None
    /\ thresholded = 0 /\ raised = FALSE /\ thresholds = <<>>
    /\ calls = <<>> /\ vote_maps = <<>> /\ validation = None /\ WebIdle
    /\ products = <<>> /\ scan_history = <<>> /\ lookups = <<>>

\* method 1 runs always, methods 2..7 only under `if not all_results:`;
\* results = pyzbar.decode(...); all_results.extend(results)
MethodStep ==
    /\ cascade.name = "_scan_with_preprocessing"
    /\ cascade.at \in 1..NumMethods /\ ~cascade.returned
    /\ cascade' =
          IF cascade.at > 1 /\ ~MethodGuard(cascade.all_results)
          THEN [cascade EXCEPT !.at = @ + 1]
          ELSE IF cascade.env[cascade.at] = "raises"
          THEN [cascade EXCEPT !.ran = Append(@, cascade.at),
                               !.returned = TRUE, !.escaped = TRUE]
          ELSE [cascade EXCEPT
                   !.ran = Append(@, cascade.at),
                   !.all_results = IF cascade.env[cascade.at] = "found"
                                   THEN @ \o MethodResults(cascade.at) ELSE @,
                   !.at = @ + 1]
    /\ UNCHANGED decoderVars
    /\ UNCHANGED <<calls, vote_maps, validation, webVars, products, scan_history, lookups>>

\* remove duplicates; return unique_results
ReturnUnique ==
    /\ cascade.name = "_scan_with_preprocessing"
    /\ cascade.at = NumMethods + 1 /\ ~cascade.returned
    /\ cascade' = [cascade EXCEPT
                      !.returned = TRUE,
                      !.ret = [barcode |-> Unique(cascade.all_results),
                               error |-> None]]
    /\ UNCHANGED decoderVars
    /\ UNCHANGED <<calls, vote_maps, validation, webVars, products, scan_history, lookups>>

InitCascade == InitScanImageBytes \/ InitScanWithPreprocessing

NextCascade ==
    \/ OpenImage \/ RunStage \/ StartPure
    \/ Convert \/ ConvertRaises \/ SkipLine \/ ScanLine \/ Return
    \/ FinishPure
    \/ MethodStep \/ ReturnUnique

SpecCascade == InitCascade /\ [][NextCascade]_vars

(***************************************************************************)
(* Several _try_pure_python calls on one ImageBarcodeScanner, interleaved  *)
(* line by line.  The class has no attributes; every call has its own      *)
(* locals, kept in calls[c], and its votes in vote_maps[VoteMapOf(c)].     *)
(***************************************************************************)
NumCalls == 2

\* as VoteMapOf, for a vote map kept in one place for all calls
VoteMapShared(c) == 1

\* barcodes_found = {} creates the map of call c
VoteMapOf(c) == c

\* the votes of lines 0..k-1 of a call that runs alone
RECURSIVE VotesAlone(_, _)
VotesAlone(g, k) ==
    IF k = 0 THEN <<>>
    ELSE CHOOSE v \in
            {IF f = None THEN prev ELSE Vote(prev, f) :
                prev \in {VotesAlone(g, k - 1)},
                f \in {LET r == RowOf(g, g.width, g.height, LinePct(k - 1))
                       IN  IF TooShort(r) THEN None
                           ELSE FindEan13(Binarize(r, OtsuThreshold(r).threshold))}} :
            TRUE

\* the result of a call that runs alone on g
ResultAlone(g) ==
    IF g.corrupt THEN None
    ELSE CHOOSE res \in {IF v # <<>> THEN MaxKey(v) ELSE None :
                            v \in {VotesAlone(g, NumLines)}} : TRUE

\* the images of call c: one symbol row or an unreadable image for call 1,
\* two symbol rows or a small image for call 2, an unreadable image for any
\* further call
ImagesOf(c) ==
    IF c = 1
    THEN {Image(100, 100, 255, 0,
                <<RowMark(15, 0, Render(Encode(Scenario1Code), 1, 255, 0, TRUE))>>)}
         \cup CorruptImages
    ELSE IF c = 2
    THEN {Image(100, 100, 255, 0,
                <<RowMark(15, 0, Render(Encode(OtherCode), 1, 255, 0, TRUE)),
                  RowMark(17, 0, Render(Encode(OtherCode), 1, 255, 0, TRUE))>>),
          Image(50, 50, 255, 0, <<>>)}
    ELSE CorruptImages

InitConcurrent ==
    /\ pc = "concurrent"
    /\ \E g \in [1..NumCalls -> UNION {ImagesOf(c) : c \in 1..NumCalls}] :
          /\ \A c \in 1..NumCalls : g[c] \in ImagesOf(c)
          /\ calls = [c \in 1..NumCalls |->
                        [img |-> g[c], pc |-> "start", width |-> 0, height |-> 0,
                         line_idx |-> 0, result |-> None, raised |-> FALSE,
                         alone |-> ResultAlone(g[c])]]
    /\ vote_maps = [m \in 1..NumCalls |-> <<>>]
    /\ img = NoImage /\ input = NoInput
    /\ width = 0 /\ height = 0 /\ line_idx = 0
    /\ row = <<>> /\ threshold = 0 /\ binary = <<>> /\ barcode = None
    /\ barcodes_found = <<>> /\ result = None
    /\ thresholded = 0 /\ raised = FALSE /\ thresholds = <<>>
    /\ cascade = [name |-> "none"] /\ validation = None /\ WebIdle
    /\ products = <<>> /\ scan_history = <<>> /\ lookups = <<>>

\* gray = img.convert('L'); width, height = gray.size; barcodes_found = {};
\* an unreadable image ends the call in its except clause
CallConvert(c) ==
    /\ calls[c].pc = "start"
    /\ IF calls[c].img.corrupt
       THEN /\ calls' = [calls EXCEPT ![c].pc = "done", ![c].result = None,
                                      ![c].raised = TRUE]
            /\ UNCHANGED vote_maps
       ELSE /\ calls' = [calls EXCEPT ![c].pc = "loop",
                                      ![c].width = calls[c].img.width,
                                      ![c].height = calls[c].img.height,
                                      ![c].line_idx = 0]
            /\ vote_maps' = [vote_maps EXCEPT ![VoteMapOf(c)] = <<>>]
    /\ UNCHANGED decoderVars
    /\ UNCHANGED <<cascade, validation, webVars, products, scan_history, lookups>>

CallSkipLine(c) ==
    /\ calls[c].pc = "loop"
    /\ calls[c].line_idx < NumLines
    /\ TooShort(RowOf(calls[c].img, calls[c].width, calls[c].height,
                      LinePct(calls[c].line_idx)))
    /\ calls' = [calls EXCEPT ![c].line_idx = NextLine(@)]
    /\ UNCHANGED vote_maps
    /\ UNCHANGED decoderVars
    /\ UNCHANGED <<cascade, validation, webVars, products, scan_history, lookups>>

CallScanLine(c) ==
    /\ calls[c].pc = "loop"
    /\ calls[c].line_idx < NumLines
    /\ \E r \in {RowOf(calls[c].img, calls[c].width, calls[c].height,
                       LinePct(calls[c].line_idx))} :
       /\ ~TooShort(r)
       /\ \E o \in {OtsuThreshold(r)} :
          IF o.raised
          THEN /\ calls' = [calls EXCEPT ![c].pc = "done", ![c].result = None,
                                         ![c].raised = TRUE]
               /\ UNCHANGED vote_maps
          ELSE \E f \in {FindEan13(Binarize(r, o.threshold))} :
               /\ vote_maps' =
                     IF f # None
                     THEN [vote_maps EXCEPT ![VoteMapOf(c)] = Vote(@, f)]
                     ELSE vote_maps
               /\ calls' = [calls EXCEPT ![c].line_idx = NextLine(@)]
    /\ UNCHANGED decoderVars
    /\ UNCHANGED <<cascade, validation, webVars, products, scan_history, lookups>>

CallReturn(c) ==
    /\ calls[c].pc = "loop"
    /\ calls[c].line_idx = NumLines
    /\ calls' = [calls EXCEPT
                    ![c].pc = "done",
                    ![c].result = IF vote_maps[VoteMapOf(c)] # <<>>
                                  THEN MaxKey(vote_maps[VoteMapOf(c)])
                                  ELSE None]
    /\ UNCHANGED vote_maps
    /\ UNCHANGED decoderVars
    /\ UNCHANGED <<cascade, validation, webVars, products, scan_history, lookups>>

NextConcurrent ==
    \E c \in 1..NumCalls :
        CallConvert(c) \/ CallSkipLine(c) \/ CallScanLine(c) \/ CallReturn(c)

SpecConcurrent == InitConcurrent /\ [][NextConcurrent]_vars

(***************************************************************************)
(* ProductService.lookup_product.  products and scan_history are the two   *)
(* tables; lookups[c] holds the locals of call c.  Calls run concurrently  *)
(* and switch at database and network operations.  "None" stands for       *)
(* Python's None in string fields, 0 for None in id fields.                *)
(***************************************************************************)
NumLookups == 2

Sources == <<"local", "off", "fssai", "cdsco">>

\* result['source'] of a hit in source src
SourceName(src) ==
    IF src = "local" THEN "Local Indian Database"
    ELSE IF src = "off" THEN "Open Food Facts"
    ELSE IF src = "fssai" THEN "FSSAI Database"
    ELSE "CDSCO Database"

\* the source argument of _log_scan after a hit in source src
LogLabel(src) ==
    IF src = "local" THEN "local_db"
    ELSE IF src = "off" THEN "openfoodfacts"
    ELSE src

\* as LocalQuery, for a products table that is never read back
LocalQueryMiss(rows, b) == 0

\* Product.query.filter_by(barcode=barcode).first(): the id of the row, or 0
LocalQuery(rows, b) ==
    LET hits == {i \in DOMAIN rows : rows[i].barcode = b}
    IN  IF hits = {} THEN 0 ELSE rows[Min(hits)].id

\* OpenFoodFactsService.get_product: a product only for status code 200 and
\* data['status'] == 1; a requests.RequestException is answered with None
OffOutcomes == {"hit", "miss", "request_error"}

OffProduct(o) == o = "hit"

\* FSSAIService.search_product and CDSCOService.search_medicine: return None
FssaiSearch(b) == FALSE

CdscoSearch(b) == FALSE

\* as NextAfter, for a lookup that goes on to the next source after a hit
NextAfterFallThrough(src, hit) ==
    IF src = "local" THEN "off"
    ELSE IF src = "off" THEN "fssai"
    ELSE IF src = "fssai" THEN "cdsco"
    ELSE "log"

\* where a call continues after source src answered: a local hit goes to its
\* log and return, an external hit to its save, a miss to the next source
NextAfter(src, hit) ==
    IF hit THEN (IF src = "local" THEN "log" ELSE "save")
    ELSE IF src = "local" THEN "off"
    ELSE IF src = "off" THEN "fssai"
    ELSE IF src = "fssai" THEN "cdsco"
    ELSE "log"

\* the locals of a call after source src answered
Answered(l, src, hit, id) ==
    [l EXCEPT !.queried = Append(@, [source |-> src, hit |-> hit]),
              !.found = IF hit THEN TRUE ELSE @,
              !.source = IF hit THEN SourceName(src) ELSE @,
              !.data_source = IF hit THEN LogLabel(src) ELSE @,
              !.product_id = IF hit THEN id ELSE @,
              !.pc = NextAfter(src, hit)]

LookupBarcodes == {Scenario1Code, OtherCode}

SeededProducts ==
    {<<>>, <<[id |-> 1, barcode |-> Scenario1Code, data_source |-> "seed"]>>}

InitLookup ==
    /\ pc = "lookup"
    /\ products \in SeededProducts
    /\ scan_history = <<>>
    /\ \E b \in [1..NumLookups -> LookupBarcodes] :
          lookups = [c \in 1..NumLookups |->
                        [barcode |-> b[c], pc |-> "local", queried |-> <<>>,
                         found |-> FALSE, source |-> "None", data_source |-> "None",
                         product_id |-> 0, raw |-> FALSE, logged |-> 0]]
    /\ img = NoImage /\ input = NoInput
    /\ width = 0 /\ height = 0 /\ line_idx = 0
    /\ row = <<>> /\ threshold = 0 /\ binary = <<>> /\ barcode = None
    /\ barcodes_found = <<>> /\ result = None
    /\ thresholded = 0 /\ raised = FALSE /\ thresholds = <<>>
    /\ cascade = [name |-> "none"] /\ calls = <<>> /\ vote_maps = <<>>
    /\ validation = None /\ WebIdle

\* Step 1: product = Product.query.filter_by(barcode=barcode).first()
QueryLocal(c) ==
    /\ lookups[c].pc = "local"
    /\ \E id \in {LocalQuery(products, lookups[c].barcode)} :
          lookups' = [lookups EXCEPT ![c] = Answered(@, "local", id # 0, id)]
    /\ UNCHANGED <<products, scan_history>>
    /\ UNCHANGED decoderVars
    /\ UNCHANGED <<cascade, calls, vote_maps, validation, webVars>>

\* Step 2: off_product = self.off_service.get_product(barcode)
QueryOFF(c) ==
    /\ lookups[c].pc = "off"
    /\ \E o \in OffOutcomes :
          lookups' = [lookups EXCEPT ![c] = Answered(@, "off", OffProduct(o), 0)]
    /\ UNCHANGED <<products, scan_history>>
    /\ UNCHANGED decoderVars
    /\ UNCHANGED <<cascade, calls, vote_maps, validation, webVars>>

\* Step 3: fssai_product = self.fssai_service.search_product(barcode)
QueryFSSAI(c) ==
    /\ lookups[c].pc = "fssai"
    /\ lookups' = [lookups EXCEPT
                      ![c] = Answered(@, "fssai", FssaiSearch(lookups[c].barcode), 0)]
    /\ UNCHANGED <<products, scan_history>>
    /\ UNCHANGED decoderVars
    /\ UNCHANGED <<cascade, calls, vote_maps, validation, webVars>>

\* Step 4: cdsco_product = self.cdsco_service.search_medicine(barcode)
QueryCDSCO(c) ==
    /\ lookups[c].pc = "cdsco"
    /\ lookups' = [lookups EXCEPT
                      ![c] = Answered(@, "cdsco", CdscoSearch(lookups[c].barcode), 0)]
    /\ UNCHANGED <<products, scan_history>>
    /\ UNCHANGED decoderVars
    /\ UNCHANGED <<cascade, calls, vote_maps, validation, webVars>>

\* as BarcodeTaken, for a barcode column without the unique constraint
BarcodeNeverTaken(rows, b) == FALSE

\* barcode = db.Column(db.String(50), unique=True, ...): a commit that would
\* add a second row with barcode b fails
BarcodeTaken(rows, b) == LocalQuery(rows, b) # 0

\* _save_off_product (and its FSSAI and CDSCO twins): db.session.add and
\* commit; the commit fails on a second row with the same barcode (unique
\* column) or on any other database error, and is then rolled back
SaveProduct(c) ==
    /\ lookups[c].pc = "save"
    /\ \E db_ok \in BOOLEAN :
          IF db_ok /\ ~BarcodeTaken(products, lookups[c].barcode)
          THEN /\ products' = Append(products,
                                  [id |-> Len(products) + 1,
                                   barcode |-> lookups[c].barcode,
                                   data_source |-> lookups[c].data_source])
               /\ lookups' = [lookups EXCEPT ![c].product_id = Len(products) + 1,
                                             ![c].pc = "log"]
          ELSE /\ UNCHANGED products
               /\ lookups' = [lookups EXCEPT ![c].product_id = 0,
                                             ![c].raw = TRUE,
                                             ![c].pc = "log"]
    /\ UNCHANGED scan_history
    /\ UNCHANGED decoderVars
    /\ UNCHANGED <<cascade, calls, vote_maps, validation, webVars>>

\* as LogScan, writing product_found False whatever the result
LogScanUnfound(c) ==
    /\ lookups[c].pc = "log"
    /\ \E db_ok \in BOOLEAN :
          scan_history' =
             IF db_ok
             THEN Append(scan_history,
                         [barcode_scanned |-> lookups[c].barcode,
                          product_id |-> lookups[c].product_id,
                          product_found |-> FALSE,
                          data_source |-> lookups[c].data_source])
             ELSE scan_history
    /\ lookups' = [lookups EXCEPT ![c].logged = @ + 1, ![c].pc = "done"]
    /\ UNCHANGED products
    /\ UNCHANGED decoderVars
    /\ UNCHANGED <<cascade, calls, vote_maps, validation, webVars>>

\* _log_scan: add a ScanHistory row and commit; on any error roll back and
\* go on.  Then return result.
LogScan(c) ==
    /\ lookups[c].pc = "log"
    /\ \E db_ok \in BOOLEAN :
          scan_history' =
             IF db_ok
             THEN Append(scan_history,
                         [barcode_scanned |-> lookups[c].barcode,
                          product_id |-> lookups[c].product_id,
                          product_found |-> lookups[c].found,
                          data_source |-> lookups[c].data_source])
             ELSE scan_history
    /\ lookups' = [lookups EXCEPT ![c].logged = @ + 1, ![c].pc = "done"]
    /\ UNCHANGED products
    /\ UNCHANGED decoderVars
    /\ UNCHANGED <<cascade, calls, vote_maps, validation, webVars>>

NextLookup ==
    \E c \in 1..NumLookups :
        \/ QueryLocal(c) \/ QueryOFF(c) \/ QueryFSSAI(c) \/ QueryCDSCO(c)
        \/ SaveProduct(c) \/ LogScan(c)

SpecLookup == InitLookup /\ [][NextLookup]_vars

(***************************************************************************)
(* The upload and camera scan routes of create_app, which share one        *)
(* BarcodeReader and one ProductService.  requests[r] holds the locals of  *)
(* request r, lookups[r] those of its lookup_product call.  Requests are   *)
(* served by concurrent threads, which may switch between any two          *)
(* bytecodes: the store to self.last_scan_result and the load that         *)
(* follows it are separate steps.  A scan-result dict is the tuple         *)
(* <<barcode, format, is_indian>>; its quality entry is left out.  An      *)
(* error message of "None" stands for None.                                *)
(***************************************************************************)
NumRequests == 2

\* barcode[:3] in self.INDIA_GS1_PREFIXES
IsIndianBarcode(code) == Len(code) >= 3 /\ SubSeq(code, 1, 3) = <<8, 9, 0>>

\* the dict built by read_from_image from the first result
ScanDict(code) == <<code, "EAN13", IsIndianBarcode(code)>>

\* what the request carries:
\*   absent      - no file field of the expected name
\*   unnamed     - upload: the filename is empty
\*   bad_type    - upload: the extension is not allowed
\*   undecodable - cv2.imdecode returns None
\*   blank       - an image in which no method finds a barcode
\*   raises      - an image on which decoding or preprocessing raises
\*   symbol      - an image in which pyzbar finds the barcode code
File(kind, code) == [kind |-> kind, code |-> code]

RejectedKinds == {"absent", "unnamed", "bad_type"}

RequestsOf(r) ==
    IF r = 1
    THEN {[route |-> "upload", file |-> f] :
             f \in {File(k, None) : k \in RejectedKinds \cup {"undecodable", "blank", "raises"}}
                   \cup {File("symbol", Scenario1Code)}}
    ELSE IF r = 2
    THEN {[route |-> "camera", file |-> f] :
             f \in {File(k, None) : k \in {"absent", "blank"}}
                   \cup {File("symbol", OtherCode), File("symbol", Scenario1Code)}}
    ELSE {[route |-> "upload", file |-> File("symbol", OtherCode)],
          [route |-> "camera", file |-> File("undecodable", None)]}

\* the answer of a route that returns before read_from_image is called
RejectMessage(route, kind) ==
    IF route = "camera" THEN "No frame data provided"
    ELSE IF kind = "absent" THEN "No image file provided"
    ELSE IF kind = "unnamed" THEN "No file selected"
    ELSE "Invalid file type"

\* the error read_from_image returns for an image without a barcode
ReadError(kind) ==
    IF kind = "undecodable" THEN "Could not decode image"
    ELSE IF kind = "blank" THEN "No barcode detected in the image"
    ELSE "Error reading barcode"

\* as ScanFailed, for a route that does not look at the error
ScanFailedNever(error) == FALSE

\* if error:
ScanFailed(error) == error # "None" /\ error # ""

IdleLookup ==
    [barcode |-> None, pc |-> "idle", queried |-> <<>>,
     found |-> FALSE, source |-> "None", data_source |-> "None",
     product_id |-> 0, raw |-> FALSE, logged |-> 0]

InitWeb ==
    /\ pc = "web"
    /\ last_scan_result = None
    /\ \E q \in [1..NumRequests -> UNION {RequestsOf(r) : r \in 1..NumRequests}] :
          /\ \A r \in 1..NumRequests : q[r] \in RequestsOf(r)
          /\ requests = [r \in 1..NumRequests |->
                            [route |-> q[r].route, file |-> q[r].file, pc |-> "route",
                             own |-> None, scan_result |-> None, error |-> "None",
                             scanned |-> FALSE, status |-> 0, found |-> "absent"]]
    /\ products \in SeededProducts
    /\ scan_history = <<>>
    /\ lookups = [r \in 1..NumRequests |-> IdleLookup]
    /\ img = NoImage /\ input = NoInput
    /\ width = 0 /\ height = 0 /\ line_idx = 0
    /\ row = <<>> /\ threshold = 0 /\ binary = <<>> /\ barcode = None
    /\ barcodes_found = <<>> /\ result = None
    /\ thresholded = 0 /\ raised = FALSE /\ thresholds = <<>>
    /\ cascade = [name |-> "none"] /\ calls = <<>> /\ vote_maps = <<>>
    /\ validation = None

\* the route returns 400 before it reads the file
RouteReject(r) ==
    /\ requests[r].pc = "route"
    /\ requests[r].file.kind \in RejectedKinds
    /\ requests' = [requests EXCEPT
                       ![r].error = RejectMessage(requests[r].route, requests[r].file.kind),
                       ![r].status = 400,
                       ![r].pc = "responded"]
    /\ UNCHANGED <<last_scan_result, products, scan_history, lookups>>
    /\ UNCHANGED decoderVars
    /\ UNCHANGED <<cascade, calls, vote_maps, validation>>

\* read_from_image up to the dict: either a return with an error, or the
\* dict of the first result, not yet stored
ReadFromImage(r) ==
    /\ requests[r].pc = "route"
    /\ requests[r].file.kind \notin RejectedKinds
    /\ requests' =
          IF requests[r].file.kind = "symbol"
          THEN [requests EXCEPT ![r].own = ScanDict(requests[r].file.code),
                                ![r].scanned = TRUE,
                                ![r].pc = "store"]
          ELSE [requests EXCEPT ![r].scan_result = None,
                                ![r].error = ReadError(requests[r].file.kind),
                                ![r].scanned = TRUE,
                                ![r].pc = "scanned"]
    /\ UNCHANGED <<last_scan_result, products, scan_history, lookups>>
    /\ UNCHANGED decoderVars
    /\ UNCHANGED <<cascade, calls, vote_maps, validation>>

\* self.last_scan_result = {...}
StoreResult(r) ==
    /\ requests[r].pc = "store"
    /\ last_scan_result' = requests[r].own
    /\ requests' = [requests EXCEPT ![r].pc = "load"]
    /\ UNCHANGED <<products, scan_history, lookups>>
    /\ UNCHANGED decoderVars
    /\ UNCHANGED <<cascade, calls, vote_maps, validation>>

\* return self.last_scan_result, None
ReturnResult(r) ==
    /\ requests[r].pc = "load"
    /\ requests' = [requests EXCEPT ![r].scan_result = last_scan_result,
                                    ![r].error = "None",
                                    ![r].pc = "scanned"]
    /\ UNCHANGED <<last_scan_result, products, scan_history, lookups>>
    /\ UNCHANGED decoderVars
    /\ UNCHANGED <<cascade, calls, vote_maps, validation>>

\* if error: upload returns 400 with the error, camera 200 with found False
AnswerError(r) ==
    /\ requests[r].pc = "scanned"
    /\ ScanFailed(requests[r].error)
    /\ requests' = [requests EXCEPT
                       ![r].status = IF requests[r].route = "upload" THEN 400 ELSE 200,
                       ![r].found = IF requests[r].route = "upload" THEN "absent"
                                    ELSE "False",
                       ![r].pc = "responded"]
    /\ UNCHANGED <<last_scan_result, products, scan_history, lookups>>
    /\ UNCHANGED decoderVars
    /\ UNCHANGED <<cascade, calls, vote_maps, validation>>

\* barcode = scan_result['barcode']; product_service.lookup_product(barcode,
\* ...) begins.  Subscripting None raises TypeError, which Flask answers
\* with status 500.
CallLookup(r) ==
    /\ requests[r].pc = "scanned"
    /\ ~ScanFailed(requests[r].error)
    /\ IF requests[r].scan_result = None
       THEN /\ requests' = [requests EXCEPT ![r].status = 500, ![r].pc = "responded"]
            /\ UNCHANGED lookups
       ELSE /\ requests' = [requests EXCEPT ![r].pc = "lookup"]
            /\ lookups' = [lookups EXCEPT ![r].barcode = requests[r].scan_result[1],
                                          ![r].pc = "local"]
    /\ UNCHANGED <<last_scan_result, products, scan_history>>
    /\ UNCHANGED decoderVars
    /\ UNCHANGED <<cascade, calls, vote_maps, validation>>

\* lookup_product has returned: the route answers 200 with scan and product
Respond(r) ==
    /\ requests[r].pc = "lookup"
    /\ lookups[r].pc = "done"
    /\ requests' = [requests EXCEPT
                       ![r].status = 200,
                       ![r].found = IF requests[r].route = "camera" THEN "True"
                                    ELSE "absent",
                       ![r].pc = "responded"]
    /\ UNCHANGED <<last_scan_result, products, scan_history, lookups>>
    /\ UNCHANGED decoderVars
    /\ UNCHANGED <<cascade, calls, vote_maps, validation>>

NextWeb ==
    \E r \in 1..NumRequests :
        \/ RouteReject(r) \/ ReadFromImage(r) \/ StoreResult(r) \/ ReturnResult(r)
        \/ AnswerError(r) \/ CallLookup(r) \/ Respond(r)
        \/ QueryLocal(r) \/ QueryOFF(r) \/ QueryFSSAI(r) \/ QueryCDSCO(r)
        \/ SaveProduct(r) \/ LogScan(r)

SpecWeb == InitWeb /\ [][NextWeb]_vars

(***************************************************************************)
(* _otsu_threshold applied twice to one sample sequence                    *)
(***************************************************************************)
SampleLevels == {0, 1, 128, 255}

SampleInputs ==
    {<<>>}
    \cup {Fill(n, v) : n \in 1..MaxSamples, v \in 0..255}
    \cup UNION {[1..n -> SampleLevels] : n \in 1..MaxSamples}

InitOtsu ==
    /\ pc = "otsu_call"
    /\ row \in SampleInputs
    /\ input = [kind |-> "samples"]
    /\ thresholds = <<>>
    /\ threshold = 0
    /\ img = NoImage /\ width = 0 /\ height = 0 /\ line_idx = 0
    /\ binary = <<>> /\ barcode = None /\ barcodes_found = <<>>
    /\ result = None /\ thresholded = 0 /\ raised = FALSE
    /\ ServiceIdle

OtsuCall ==
    /\ pc \in {"otsu_call", "otsu_again"}
    /\ \E o \in {OtsuThreshold(row)} :
          /\ thresholds' = Append(thresholds, o)
          /\ threshold' = IF o.raised THEN threshold ELSE o.threshold
    /\ pc' = IF pc = "otsu_call" THEN "otsu_again" ELSE "otsu_return"
    /\ UNCHANGED <<input, img, width, height, line_idx, row, binary, barcode,
                   barcodes_found, result, thresholded, raised>>
    /\ UNCHANGED serviceVars

NextOtsu == OtsuCall

SpecOtsu == InitOtsu /\ [][NextOtsu]_vars

(***************************************************************************)
(* The decoder called from the scanner and called directly                 *)
(***************************************************************************)
InitScan == Init \/ InitDecode

NextScan == Next \/ NextDecode

SpecScan == InitScan /\ [][NextScan]_vars

(***************************************************************************)
(* Properties of _find_ean13 (SpecDecode)                                  *)
(***************************************************************************)
\* C2: round trip on the bare symbol: for every checksum-valid 13-digit
\* string s, _find_ean13 applied to exactly the 95 modules of s returns s.
C2_RoundTripExact95 ==
    (/\ pc = "find_return"
     /\ input.kind = "symbol" /\ input.lead = 0 /\ input.trail = 0
     /\ input.code \in ValidCodes)
    => barcode = input.code

C1_OnlyChecksumValid ==
    /\ barcode = None \/ Ean13Valid(barcode)
    /\ \A i \in DOMAIN barcodes_found : Ean13Valid(barcodes_found[i].key)

\* C1 witness: a line carrying a 13-digit string with a wrong check digit has
\* been scanned next to a vote for a valid string.
C1_Witness ==
    /\ pc = "done"
    /\ \E m \in DOMAIN img.marks :
          img.marks[m].samples = Render(Encode(BadCode), 1, 255, 0, TRUE)
    /\ barcodes_found # <<>>

\* C3: when the vote map is non-empty the returned string is a key of maximal
\* count and the first inserted among the keys of that count; when it is
\* empty the result is None.
C3_MaxVoteFirstInserted ==
    pc = "done" /\ ~raised =>
        IF barcodes_found = <<>> THEN result = None
        ELSE \E i \in DOMAIN barcodes_found :
                /\ result = barcodes_found[i].key
                /\ \A j \in DOMAIN barcodes_found :
                      /\ barcodes_found[j].count <= barcodes_found[i].count
                      /\ j < i => barcodes_found[j].count < barcodes_found[i].count

\* C3 witness: two different strings tie at the maximal count and the one
\* voted first is returned.
C3_Witness ==
    /\ pc = "done"
    /\ Len(barcodes_found) >= 2
    /\ barcodes_found[1].count = barcodes_found[2].count
    /\ \A j \in DOMAIN barcodes_found :
          barcodes_found[j].count <= barcodes_found[1].count
    /\ result = barcodes_found[1].key

\* C4: the scenario-1 image (300 x 200, white, row 100 carrying the symbol of
\* 6901234567892 at 4 samples per module) is decoded to 6901234567892.
C4_Scenario1Decodes ==
    pc = "done" /\ img \in Scenario1Images => result = Scenario1Code

\* C5: on an image whose pixels all have the same intensity, every binary
\* line is constant, has no start guard, no vote is cast and the result is
\* None.
C5_UniformImageNoBarcode ==
    img \in UniformImages =>
        /\ \A j \in DOMAIN binary : binary[j] = binary[1]
        /\ \A i \in 0..(Len(binary) - 3) : ~StartGuardAt(binary, i)
        /\ barcodes_found = <<>>
        /\ pc = "done" => result = None

\* C5 witness: a uniform image whose rows were thresholded and binarized has
\* been scanned to the end.
C5_Witness ==
    /\ img \in UniformImages /\ pc = "done"
    /\ thresholded = NumLines /\ Len(binary) >= MinRowLen /\ result = None

\* C6: on an image with no pixels (width 0 or height 0) the result is None
\* and no exception is raised on the way.
C6_EmptyImageNoBarcode ==
    img \in EmptyImages => ~raised /\ (pc = "done" => result = None)

\* C6 witness: an image with no pixels has been scanned to the end.
C6_Witness ==
    /\ img \in EmptyImages /\ NumPixels(img) = 0
    /\ pc = "done" /\ line_idx = NumLines /\ result = None

\* C8: on an image whose only symbol runs along a column the baseline lines
\* cast no vote and the decoder still returns the symbol's 13-digit string
\* (through a rotated tier).
C8_ColumnSymbolFoundByRotation ==
    pc = "done" /\ img \in Scenario2Images => result = Scenario1Code

\* C9: on a 50 x 50 image the result is None, at most the 35 scheduled lines
\* are visited, and no row is thresholded or decoded, so no vote is cast.
C9_SmallImageSkipsEveryLine ==
    img \in SmallImages =>
        /\ line_idx <= 35
        /\ thresholded = 0
        /\ barcodes_found = <<>>
        /\ pc = "done" => result = None

\* C9 witness: a 50 x 50 noise image has been scanned to the end.
C9_Witness ==
    /\ img \in SmallImages /\ img.noise > 0
    /\ pc = "done" /\ line_idx = 35 /\ Len(row) = 50 /\ result = None

\* C10: _otsu_threshold returns 128 for an empty input, returns an integer in
\* 0..255 without dividing by zero for an input of identical samples, and
\* returns the same threshold when called again on the same input.
C10_OtsuTotalDeterministic ==
    \A k \in DOMAIN thresholds :
        /\ row = <<>> => thresholds[k] = [threshold |-> 128, raised |-> FALSE]
        /\ (\A j \in DOMAIN row : row[j] = row[1]) =>
              ~thresholds[k].raised /\ thresholds[k].threshold \in 0..255
        /\ thresholds[k] = thresholds[1]

\* C10 witness: an input of identical samples has been thresholded twice.
C10_Witness ==
    /\ pc = "otsu_return" /\ Len(thresholds) = 2
    /\ Len(row) >= 2 /\ \A j \in DOMAIN row : row[j] = row[1]

RECURSIVE SumBelow(_, _, _)
\* sum of the first n samples that are below t
SumBelow(samples, t, n) ==
    IF n = 0 THEN 0
    ELSE SumBelow(samples, t, n - 1) + (IF samples[n] < t THEN samples[n] ELSE 0)

\* between-class variance w_bg * w_fg * (mean_bg - mean_fg)^2 of the classes
\* {p : p < t} and {p : p >= t}; zero when one class is empty
PartitionVariance(samples, t) ==
    LET below == {j \in DOMAIN samples : samples[j] < t}
        w_bg  == Cardinality(below)
        w_fg  == Len(samples) - w_bg
    IN  IF w_bg = 0 \/ w_fg = 0 THEN ZeroVariance
        ELSE Variance(SumBelow(samples, t, Len(samples)), w_bg,
                      SumBelow(samples, 256, Len(samples)), w_fg)

\* C11: for an input with at least two distinct intensities the returned
\* threshold t maximizes, over the candidates 0..255, the between-class
\* variance of {p : p < t} and {p : p >= t}, the classes of the binarization.
C11_ThresholdMaximizesVariance ==
    \A k \in DOMAIN thresholds :
        (\E i, j \in DOMAIN row : row[i] # row[j]) =>
            \A t \in 0..255 :
                ~Greater(PartitionVariance(row, t),
                         PartitionVariance(row, thresholds[k].threshold))

\* C19: on a line of at least 95 bits _find_ean13 returns the decode of the
\* smallest offset i in [0, len - 95) whose bits i, i+1, i+2 are 1,0,1 and
\* whose _try_decode is a checksum-valid string; a failing candidate start
\* does not stop the scan; None is returned only if no offset qualifies.
C19_FirstQualifyingOffset ==
    (pc = "find_return" /\ Len(binary) >= 95) =>
        LET qualifies(i) ==
                /\ binary[i + 1] = 1 /\ binary[i + 2] = 0 /\ binary[i + 3] = 1
                /\ Ean13Valid(TryDecode(binary, i))
            Q == {i \in 0..(Len(binary) - 96) : qualifies(i)}
        IN  IF Q = {} THEN barcode = None
            ELSE barcode = TryDecode(binary, Min(Q))

\* a symbol with a wrong check digit at offset 0 was tried and rejected, and
\* the valid symbol behind it was returned
C19_Witness ==
    /\ pc = "find_return" /\ input.kind = "pair"
    /\ ~Ean13Valid(input.code)
    /\ StartGuardAt(binary, 0) /\ TryDecode(binary, 0) = None
    /\ barcode = Scenario1Code

\* C20: k zero bits, the 95 modules of a checksum-valid string s, then
\* m >= 1 trailing bits of any value, decode to s.
C20_EmbeddedRoundTrip ==
    (/\ pc = "find_return" /\ input.kind = "symbol"
     /\ input.code \in ValidCodes /\ input.trail >= 1)
    => barcode = input.code

C20_Witness ==
    /\ pc = "find_return" /\ input.kind = "symbol"
    /\ input.code \in ValidCodes
    /\ input.lead = MaxLead /\ input.trail = MaxTrail /\ input.fill = 2 ^ MaxTrail - 1
    /\ barcode = input.code

\* C12: _find_ean13 and _try_decode never raise: a line shorter than 95 bits
\* gives None, a candidate start whose symbol would end past the line gives
\* None without an IndexError, and every index read lies in 0..len-1.
C12_NeverReadsPastEnd ==
    /\ pc = "find_return" =>
          /\ Len(binary) < 95 => barcode = None
          /\ FindReads(binary) \subseteq 0..(Len(binary) - 1)
    /\ pc = "decode_return" =>
          /\ ~raised
          /\ DecodeReads(binary, input.start) \subseteq 0..(Len(binary) - 1)
          /\ (Len(binary) < 95 \/ input.start + 95 > Len(binary)) => barcode = None

\* a start inside a full-length line whose symbol would end behind the line
C12_Witness ==
    /\ pc = "decode_return"
    /\ Len(binary) >= 95
    /\ input.start + 3 <= Len(binary) /\ input.start + 95 > Len(binary)
    /\ StartGuardAt(binary, input.start)
    /\ barcode = None /\ ~raised

\* C13: _try_pure_python terminates on every grid: it visits at most 35 line
\* positions and always eventually returns a result.
C13_PureDecoderTerminates ==
    /\ [](line_idx <= 35 /\ thresholded <= 35)
    /\ <>(pc = "done")

\* a grid on which every one of the 35 lines was thresholded and scanned
C13_Witness ==
    /\ pc = "done" /\ ~raised
    /\ line_idx = 35 /\ thresholded = 35

\* C18: on every 13-digit numeric string _validate_ean13_checksum answers
\* True exactly when the check of _try_decode accepts it; validate_barcode
\* accepts every string the pure decoder emits and rejects a 13-digit
\* numeric string with a wrong check digit with 'Invalid EAN-13 checksum'.
C18_ChecksumImplementationsAgree ==
    pc = "validate_return" =>
        LET b == validation.subject
            numeric13 == Len(b) = 13 /\ \A i \in 1..13 : b[i] \in 0..9
        IN  /\ numeric13 => (ValidateEan13Checksum(b) <=> ChecksumAccepts(b))
            /\ (validation.from = "find_return" /\ b # None) =>
                   validation.outcome =
                       [valid |-> TRUE, message |-> "Valid EAN-13 barcode"]
            /\ (numeric13 /\ ~Ean13Valid(b)) =>
                   validation.outcome =
                       [valid |-> FALSE, message |-> "Invalid EAN-13 checksum"]

\* a string returned by _find_ean13 was given to validate_barcode
C18_Witness ==
    /\ pc = "validate_return"
    /\ validation.from = "find_return" /\ validation.subject # None
    /\ ChecksumAccepts(validation.subject)
    /\ validation.outcome.valid

\* C14: the stages of scan_image_bytes run in their fixed order, a stage
\* runs only if every earlier stage produced no barcode, the returned barcode
\* is that of the first stage that produced one, and nothing runs after a
\* success; likewise for methods 1..7 of _scan_with_preprocessing.
C14_CascadeOrder ==
    /\ cascade.name = "scan_image_bytes" =>
          LET ran == cascade.ran
              produced(k) == IF k = 6 THEN pc = "done" /\ result # None
                             ELSE cascade.env[k] = "found"
              value(k) == IF k = 6 THEN result ELSE <<k>>
              hits == {k \in 1..6 : k \in {ran[i] : i \in DOMAIN ran} /\ produced(k)}
          IN  /\ \A i \in DOMAIN ran : ran[i] = i
              /\ \A i \in DOMAIN ran : \A j \in 1..(i - 1) : ~produced(j)
              /\ (cascade.returned /\ cascade.ret.barcode # None) =>
                    /\ hits # {}
                    /\ cascade.ret.barcode = value(Min(hits))
                    /\ ran[Len(ran)] = Min(hits)
              /\ (cascade.returned /\ cascade.open = "ok"
                  /\ cascade.ret.barcode = None) => (Len(ran) = 6 /\ hits = {})
    /\ cascade.name = "_scan_with_preprocessing" =>
          LET ran == cascade.ran
              hits == {k \in 1..7 : k \in {ran[i] : i \in DOMAIN ran}
                                    /\ cascade.env[k] = "found"}
          IN  /\ \A i \in DOMAIN ran : ran[i] = i
              /\ \A i \in DOMAIN ran : \A j \in 1..(i - 1) : cascade.env[j] # "found"
              /\ (cascade.returned /\ ~cascade.escaped) =>
                    IF hits = {} THEN cascade.ret.barcode = <<>> /\ Len(ran) = 7
                    ELSE /\ cascade.ret.barcode = << <<Min(hits)>> >>
                         /\ ran[Len(ran)] = Min(hits)

\* stage 3 found a barcode and returned it although stage 4 would have
\* found another one
C14_Witness ==
    /\ cascade.name = "scan_image_bytes" /\ cascade.returned
    /\ cascade.ran = <<1, 2, 3>>
    /\ cascade.env[4] = "found"
    /\ cascade.ret.barcode = <<3>>

\* C15: scan_image_bytes returns a pair with exactly one None component,
\* (non-empty barcode, None) or (None, message); an exception inside a stage
\* makes that stage find nothing and never leaves scan_image_bytes.
C15_PairAndNoEscape ==
    cascade.name = "scan_image_bytes" =>
        /\ ~cascade.escaped
        /\ cascade.returned =>
              /\ (cascade.ret.barcode = None) # (cascade.ret.error = None)
              /\ cascade.ret.barcode # None => Len(cascade.ret.barcode) >= 1
        /\ \A i \in DOMAIN cascade.ran :
              (cascade.ran[i] < 6 /\ cascade.env[cascade.ran[i]] = "raises") =>
                  (cascade.at > cascade.ran[i] /\ ~(cascade.returned /\ Len(cascade.ran) = i))
        /\ (cascade.returned /\ raised) =>
              cascade.ret = [barcode |-> None, error |-> NoBarcodeError]

\* a pyzbar stage raised, later the pure decoder raised as well, and the
\* caller got (None, message)
C15_Witness ==
    /\ cascade.name = "scan_image_bytes" /\ cascade.returned
    /\ cascade.env[2] = "raises" /\ raised
    /\ cascade.ran = <<1, 2, 3, 4, 5, 6>>
    /\ cascade.ret = [barcode |-> None, error |-> NoBarcodeError]

\* C16: under every interleaving of concurrent _try_pure_python calls, each
\* call returns the result it returns when it runs alone on its image.
C16_ConcurrentCallsIndependent ==
    \A c \in DOMAIN calls :
        calls[c].pc = "done" => calls[c].result = calls[c].alone

\* call 1 returned its own barcode while call 2 was in its loop with votes
\* for another barcode already cast
C16_Witness ==
    /\ calls # <<>>
    /\ calls[1].pc = "done" /\ calls[1].result = Scenario1Code
    /\ calls[2].pc = "loop" /\ calls[2].line_idx < NumLines
    /\ vote_maps[2] # <<>>

\* C17: lookup_product asks local database, Open Food Facts, FSSAI, CDSCO in
\* this order, asks a source only if every earlier one missed, names the
\* first source that hit in result['source'], and answers found False with
\* source None only if all four missed.
C17_LookupSourceOrder ==
    \A c \in DOMAIN lookups :
        LET q == lookups[c].queried
            names == <<"Local Indian Database", "Open Food Facts",
                       "FSSAI Database", "CDSCO Database">>
        IN  /\ Len(q) <= 4
            /\ \A i \in DOMAIN q : q[i].source = <<"local", "off", "fssai", "cdsco">>[i]
            /\ \A i \in DOMAIN q : \A j \in 1..(i - 1) : ~q[j].hit
            /\ lookups[c].pc = "done" =>
                  IF lookups[c].found
                  THEN /\ q[Len(q)].hit
                       /\ lookups[c].source = names[Len(q)]
                  ELSE /\ lookups[c].source = "None"
                       /\ Len(q) = 4 /\ \A i \in 1..4 : ~q[i].hit

\* one call was answered by the local database without any other source
\* being asked, another by Open Food Facts after a local miss
C17_Witness ==
    /\ lookups # <<>>
    /\ lookups[1].pc = "done" /\ lookups[1].source = "Local Indian Database"
    /\ Len(lookups[1].queried) = 1
    /\ lookups[2].pc = "done" /\ lookups[2].source = "Open Food Facts"
    /\ Len(lookups[2].queried) = 2

\* C21: the result of _try_decode at a start does not depend on the bits of
\* the middle guard (indices start + 45 .. start + 49) nor on those of the
\* end guard (indices start + 92 .. start + 94): a line and the line of the
\* same length with any other bits at these indices decode alike.
C21_GuardBitsIgnored ==
    pc = "guard_return" => result = barcode

\* a symbol that decodes at a start behind the beginning of the line, and
\* whose two guards were both overwritten with different bits
C21_Witness ==
    /\ pc = "guard_return"
    /\ barcode = Scenario1Code
    /\ input.start > 0
    /\ \E j \in 46..50 : WithGuards(binary, input.start, input.middle, input.end_)
                            [input.start + j] # binary[input.start + j]
    /\ \E j \in 93..95 : WithGuards(binary, input.start, input.middle, input.end_)
                            [input.start + j] # binary[input.start + j]

\* sum(barcodes_found.values())
RECURSIVE SumCounts(_, _)
SumCounts(found, n) ==
    IF n = 0 THEN 0 ELSE SumCounts(found, n - 1) + found[n].count

\* barcodes_found.get(key, 0)
CountOf(found, key) ==
    LET hits == {i \in DOMAIN found : found[i].key = key}
    IN  IF hits = {} THEN 0 ELSE found[CHOOSE i \in hits : TRUE].count

\* line k of the schedule, taken by itself, is long enough and decodes
LineDecodes(g, k) ==
    LET r == RowOf(g, g.width, g.height, LinePct(k))
    IN  /\ ~TooShort(r)
        /\ FindEan13(Binarize(r, OtsuThreshold(r).threshold)) # None

\* the number of sampled lines of image g that decode
DecodedLineCount(g) == Cardinality({k \in 0..(NumLines - 1) : LineDecodes(g, k)})

\* a pass of the loop in which the line decoded
DecodedPass ==
    /\ pc = "loop" /\ pc' = "loop"
    /\ thresholded' = thresholded + 1
    /\ barcode' # None

\* C22: the loop of _try_pure_python goes through all 35 line percentages,
\* also after a line has decoded; a line that decodes adds exactly 1 to the
\* count of its string and changes no other count; at the return the counts
\* sum to the number of sampled lines that decoded; every count is between
\* 1 and 35; and no count ever decreases.
C22_VoteTally ==
    /\ [](pc = "done" /\ ~raised =>
             /\ line_idx = NumLines
             /\ SumCounts(barcodes_found, Len(barcodes_found)) = DecodedLineCount(img))
    /\ [](\A i \in DOMAIN barcodes_found : barcodes_found[i].count \in 1..NumLines)
    /\ [][/\ \A i \in DOMAIN barcodes_found :
                CountOf(barcodes_found', barcodes_found[i].key)
                    >= barcodes_found[i].count
          /\ DecodedPass =>
                /\ line_idx' = line_idx + 1
                /\ CountOf(barcodes_found', barcode')
                      = CountOf(barcodes_found, barcode') + 1
                /\ SumCounts(barcodes_found', Len(barcodes_found'))
                      = SumCounts(barcodes_found, Len(barcodes_found)) + 1
          /\ (pc = "loop" /\ pc' = "loop" /\ ~DecodedPass) =>
                barcodes_found' = barcodes_found]_vars

\* a call returned after 35 lines of which some decoded and some did not:
\* one string was decoded on two lines, another on one line
C22_Witness ==
    /\ pc = "done" /\ ~raised
    /\ line_idx = NumLines
    /\ Len(barcodes_found) = 2
    /\ barcodes_found[1].count = 2
    /\ barcodes_found[2].count = 1
    /\ thresholded > 3

\* the percentage and the row index of the pass that has just ended
LastPct == LinePct(line_idx - 1)
LastY == LineY(height, LastPct)

\* C23: the loop samples the percentages 15, 17, ..., 83, 35 values in
\* increasing order; for every height >= 1 the row index
\* y = floor(height * pct / 100) satisfies 0 <= y < height; and with
\* width * height pixels the row slice pixels[y * width : (y + 1) * width]
\* lies inside the list and has exactly width samples, those of row y.
C23_LineSchedule ==
    /\ [](pc \in {"loop", "done"} /\ line_idx > 0 /\ height >= 1 =>
             /\ line_idx <= 35
             /\ LastPct = 15 + 2 * (line_idx - 1)
             /\ LastPct <= 83
             /\ LastY >= 0 /\ LastY < height
             /\ (LastY + 1) * width <= NumPixels(img)
             /\ Len(row) = width
             /\ \A j \in 1..width : row[j] = PixelAt(img, j - 1, LastY))
    /\ [](pc = "done" /\ ~raised => line_idx = 35 /\ LastPct = 83)
    /\ [][pc = "loop" /\ line_idx' # line_idx =>
             /\ line_idx' = line_idx + 1
             /\ LinePct(line_idx') = LinePct(line_idx) + 2]_vars

\* the call returned after its 35 passes over a grid of MaxHeight rows and
\* MaxWidth columns: the last pass took row floor(83 * height / 100)
C23_Witness ==
    /\ pc = "done" /\ line_idx = 35
    /\ height = MaxHeight /\ width = MaxWidth
    /\ LastY = (83 * MaxHeight) \div 100
    /\ Len(row) = MaxWidth

\* call c has returned an Open Food Facts hit whose save succeeded
ReturnedSavedOff(c) ==
    /\ lookups[c].pc = "done"
    /\ lookups[c].source = "Open Food Facts"
    /\ lookups[c].product_id # 0

\* call d answers from the local table and has asked no other source
LocalOnly(d) ==
    /\ lookups[d].found
    /\ lookups[d].source = "Local Indian Database"
    /\ lookups[d].queried = <<[source |-> "local", hit |-> TRUE]>>

\* C24: once a lookup_product(b) call has returned source 'Open Food Facts'
\* with its row saved, every lookup_product(b) call that begins later finds
\* the row in the local table, returns found=True with source 'Local Indian
\* Database', and queries neither Open Food Facts nor FSSAI nor CDSCO.
C24_ExternalHitCached ==
    /\ [][\A c \in 1..NumLookups, d \in 1..NumLookups :
             (/\ ReturnedSavedOff(c)
              /\ lookups[d].barcode = lookups[c].barcode
              /\ lookups[d].pc = "local"
              /\ lookups'[d].pc # "local")
             => (LocalOnly(d))' /\ lookups'[d].pc = "log"]_vars
    /\ [](\A d \in 1..NumLookups :
             (lookups # <<>> /\ lookups[d].pc \in {"log", "done"}
              /\ lookups[d].queried[1].hit) => LocalOnly(d))

\* a barcode unknown at first: one call returned it from Open Food Facts and
\* saved it, and a call that began after that return has returned it from
\* the local table
C24_Witness ==
    /\ pc = "lookup"
    /\ \E c \in 1..NumLookups, d \in 1..NumLookups :
          /\ ReturnedSavedOff(c)
          /\ products[lookups[c].product_id].data_source = "openfoodfacts"
          /\ lookups[d].barcode = lookups[c].barcode
          /\ lookups[d].pc = "done"
          /\ LocalOnly(d)
          /\ lookups[d].product_id = lookups[c].product_id

\* call c is at its save, or past it, after an Open Food Facts hit
OffHit(c) ==
    /\ lookups[c].source = "Open Food Facts"
    /\ lookups[c].pc \in {"save", "log", "done"}

\* C25: under every interleaving of concurrent lookup_product calls for one
\* barcode unknown to the local table, the products table never holds two
\* rows with that barcode; a call whose insert meets the row of another call
\* adds nothing and gets None from _save_off_product; that call still
\* answers found=True from Open Food Facts with the raw data, and the scan
\* it logs has product_id None and product_found True.
C25_OneRowPerBarcode ==
    /\ [](\A i \in DOMAIN products, j \in DOMAIN products :
             products[i].barcode = products[j].barcode => i = j)
    /\ [][\A c \in 1..NumLookups :
             (/\ lookups[c].pc = "save" /\ lookups'[c].pc = "log"
              /\ BarcodeTaken(products, lookups[c].barcode))
             => /\ products' = products
                /\ lookups'[c].raw /\ lookups'[c].product_id = 0]_vars
    /\ [](\A c \in 1..NumLookups :
             (lookups # <<>> /\ OffHit(c) /\ lookups[c].raw)
             => /\ lookups[c].found
                /\ lookups[c].product_id = 0)
    /\ [][\A c \in 1..NumLookups :
             (/\ OffHit(c) /\ lookups[c].raw
              /\ lookups[c].pc = "log" /\ lookups'[c].pc = "done")
             => /\ lookups'[c].found /\ lookups'[c].raw
                /\ lookups'[c].source = "Open Food Facts"
                /\ \/ scan_history' = scan_history
                   \/ scan_history' =
                         Append(scan_history,
                                [barcode_scanned |-> lookups[c].barcode,
                                 product_id |-> 0,
                                 product_found |-> TRUE,
                                 data_source |-> "openfoodfacts"])]_vars

\* two calls for one barcode that was unknown both missed the local table
\* and hit Open Food Facts; one saved the row, the other got None from its
\* save, and both have returned and logged their scans
C25_Witness ==
    /\ pc = "lookup"
    /\ \E c \in 1..NumLookups, d \in 1..NumLookups :
          /\ c # d
          /\ lookups[c].barcode = lookups[d].barcode
          /\ lookups[c].pc = "done" /\ lookups[d].pc = "done"
          /\ OffHit(c) /\ OffHit(d)
          /\ lookups[c].product_id # 0
          /\ products[lookups[c].product_id].barcode = lookups[c].barcode
          /\ lookups[d].raw /\ lookups[d].found /\ lookups[d].product_id = 0
          /\ \E h \in DOMAIN scan_history :
                /\ scan_history[h].barcode_scanned = lookups[d].barcode
                /\ scan_history[h].product_id = 0
                /\ scan_history[h].product_found

\* C26: every read_from_image call that detects a barcode returns the
\* scan-result dict built from its own image, also when several calls run
\* concurrently on the one BarcodeReader that create_app shares.
C26_ReturnsOwnResult ==
    \A r \in DOMAIN requests :
        (requests[r].pc \in {"scanned", "lookup", "responded"}
         /\ requests[r].own # None)
        => requests[r].scan_result = requests[r].own

\* read_from_image was called for request r and returned an error
FailedScan(r) == requests[r].scanned /\ requests[r].own = None

\* C30: in the upload and camera routes lookup_product is called only after
\* read_from_image returned a result without error; a request whose scan
\* failed performs no lookup and logs no scan, upload answering 400 with
\* the error and camera 200 with found=False; so the scan history has at
\* most one row per request whose scan succeeded.
C30_LookupOnlyAfterScan ==
    /\ \A r \in DOMAIN requests :
          /\ lookups[r].pc # "idle" =>
                /\ requests[r].pc \in {"lookup", "responded"}
                /\ requests[r].scanned
                /\ requests[r].error = "None"
                /\ requests[r].scan_result # None
                /\ lookups[r].barcode = requests[r].scan_result[1]
          /\ FailedScan(r) =>
                /\ lookups[r] = IdleLookup
                /\ requests[r].error = ReadError(requests[r].file.kind)
                /\ requests[r].pc = "responded" =>
                      /\ requests[r].status =
                            (IF requests[r].route = "upload" THEN 400 ELSE 200)
                      /\ requests[r].route = "camera" => requests[r].found = "False"
    /\ Len(scan_history)
          <= Cardinality({r \in DOMAIN requests :
                            ~FailedScan(r) /\ lookups[r].logged = 1})

\* an upload whose scan failed was answered 400 and a camera frame with a
\* barcode was answered 200 after its lookup logged one scan
C30_Witness ==
    /\ pc = "web"
    /\ \E r \in DOMAIN requests, q \in DOMAIN requests :
          /\ requests[r].route = "upload" /\ FailedScan(r)
          /\ requests[r].pc = "responded" /\ requests[r].status = 400
          /\ requests[q].route = "camera" /\ requests[q].pc = "responded"
          /\ requests[q].status = 200 /\ requests[q].found = "True"
          /\ lookups[q].pc = "done"
    /\ Len(scan_history) = 1

\* the distinct intensities of a row
Levels(r) == {r[j] : j \in DOMAIN r}

\* C27: a row with exactly two distinct intensities a < b, thresholded with
\* _otsu_threshold and binarized with bit(p) = 0 if p < t else 1 as
\* _try_pure_python does, has every sample of value a mapped to 0 and every
\* sample of value b mapped to 1.
C27_TwoLevelRowSplit ==
    (/\ pc \in {"loop", "done"} /\ ~raised
     /\ ~TooShort(row) /\ Len(binary) = Len(row)
     /\ Cardinality(Levels(row)) = 2)
    => \A j \in DOMAIN row :
          binary[j] = IF row[j] = Min(Levels(row)) THEN 0 ELSE 1

\* the (digit, table) pairs whose entry is the pattern p
LeftMatches(p) ==
    {<<d, "L">> : d \in {e \in 0..9 : L[e + 1] = p}}
    \cup {<<d, "G">> : d \in {e \in 0..9 : G[e + 1] = p}}

\* the only element of a set of at most one tuple, or None
OnlyOf(S) == IF S = {} THEN None ELSE CHOOSE x \in S : TRUE

\* C28: the 30 entries of L, G and R are pairwise distinct 7-bit patterns
\* and the 10 entries of FIRST pairwise distinct 6-letter strings; so a
\* 7-bit left group matches at most one (digit, table) pair, which is what
\* the search returns whatever the order of its comparisons, a right group
\* matches at most one digit, and a parity string at most one first digit.
C28_TablesUnambiguous ==
    /\ Cardinality({L[d] : d \in 1..10} \cup {G[d] : d \in 1..10}
                   \cup {R[d] : d \in 1..10}) = 30
    /\ \A d \in 1..10 : Len(L[d]) = 7 /\ Len(G[d]) = 7 /\ Len(R[d]) = 7
    /\ Cardinality({FIRST[d] : d \in 1..10}) = 10
    /\ \A d \in 1..10 : Len(FIRST[d]) = 6
    /\ pc = "match_return" =>
          /\ Cardinality(LeftMatches(input.pattern)) <= 1
          /\ result[1] = OnlyOf(LeftMatches(input.pattern))
          /\ Cardinality({d \in 0..9 : R[d + 1] = input.pattern}) <= 1
          /\ result[2] = OnlyOf({<<d>> : d \in {e \in 0..9 : R[e + 1] = input.pattern}})
          /\ Cardinality({fd \in 0..9 : FIRST[fd + 1] = input.types}) <= 1
          /\ result[3] = OnlyOf({<<fd>> : fd \in {e \in 0..9 : FIRST[e + 1] = input.types}})

\* a group found in G, and so not in R, with a parity string found in FIRST
C28_Witness ==
    /\ pc = "match_return"
    /\ result[1] # None /\ result[1][2] = "G"
    /\ result[2] = None
    /\ result[3] # None /\ result[3][1] > 0

\* the exit path of a call that is at its log or has returned: the source
\* that hit, or "not found" after four misses
ExitPath(c) ==
    IF lookups[c].found THEN lookups[c].queried[Len(lookups[c].queried)].source
    ELSE "not found"

\* C29: every lookup_product call that returns has called _log_scan exactly
\* once, on whichever of its exit paths (local hit, Open Food Facts hit,
\* FSSAI hit, CDSCO hit, not found) it took, and not before; the row
\* written has product_found True exactly when the result has found=True;
\* a failed write leaves the history as it was; and the call of _log_scan
\* changes nothing of the result and always comes back.
C29_OneLogPerLookup ==
    /\ [](\A c \in 1..NumLookups :
             /\ lookups[c].logged = (IF lookups[c].pc = "done" THEN 1 ELSE 0)
             /\ lookups[c].pc \in {"log", "done"} =>
                   /\ ExitPath(c) \in {"local", "off", "fssai", "cdsco", "not found"}
                   /\ ExitPath(c) = "not found" => Len(lookups[c].queried) = 4)
    /\ [][\A c \in 1..NumLookups :
             lookups'[c].logged # lookups[c].logged =>
                /\ lookups[c].pc = "log" /\ lookups'[c].pc = "done"
                /\ lookups'[c].logged = lookups[c].logged + 1
                /\ lookups'[c] = [lookups[c] EXCEPT !.logged = @ + 1, !.pc = "done"]
                /\ products' = products
                /\ \/ scan_history' = scan_history
                   \/ /\ Len(scan_history') = Len(scan_history) + 1
                      /\ SubSeq(scan_history', 1, Len(scan_history)) = scan_history
                      /\ LET h == scan_history'[Len(scan_history')]
                         IN  /\ h.barcode_scanned = lookups[c].barcode
                             /\ h.product_found = lookups[c].found
                             /\ h.product_id = lookups[c].product_id]_vars
    /\ [][scan_history' # scan_history =>
             \E c \in 1..NumLookups : lookups'[c].logged = lookups[c].logged + 1]_vars

\* two calls have returned, one with a hit and one without; each called
\* _log_scan once; the write of the miss failed and that of the hit is in
\* the history with product_found True
C29_Witness ==
    /\ pc = "lookup"
    /\ \E c \in 1..NumLookups, d \in 1..NumLookups :
          /\ lookups[c].pc = "done" /\ lookups[d].pc = "done"
          /\ lookups[c].found /\ lookups[c].logged = 1
          /\ ~lookups[d].found /\ lookups[d].logged = 1
          /\ Len(lookups[d].queried) = 4
          /\ lookups[c].barcode # lookups[d].barcode
    /\ Len(scan_history) = 1
    /\ scan_history[1].product_found

====
